---- MODULE Spec2Model ----
(***************************************************************************)
(* A model of sphyraena: the stream multiplexer (package strest: Stream,   *)
(* substream) and the recursive routing engine (package router:            *)
(* RouteBlock.Route, Request frames, the router clauses).                  *)
(*                                                                         *)
(* Two specifications share this module.  StreamSpec runs one Stream, its  *)
(* serving goroutine, a transport and the goroutines that call into it.    *)
(* RouterSpec routes one request through a routing table.  Each leaves the *)
(* other part's variables at their initial values.                         *)
(***************************************************************************)
EXTENDS Integers, Sequences, FiniteSets, TLC

(***************************************************************************)
(* Bounds of the model.                                                    *)
(***************************************************************************)
\* NumCallers: handler goroutines that ask the Stream for a substream.
\* MaxSubstreams: substreams the Stream hands out.
\* MaxQueued: messages the substreams send and the close notifications the
\* Stream synthesizes for unknown destinations; the close notifications of
\* registered substreams come on top of it.
NumCallers == 2
MaxSubstreams == 2
MaxQueued == 1

\* The goroutines that call into the Stream: the handlers that own substreams
\* (Callers) and the goroutine that owns the Stream (Driver), which attaches
\* and detaches the transport and closes the Stream.
Driver == 0
Callers == 1..NumCallers
Procs == {Driver} \cup Callers
SubstreamIDs == 1..MaxSubstreams

\* MaxDepth: RouteBlocks nested inside one another, the root included.
\* MaxClauses: clauses of one RouteBlock.
\* MaxPathLen: bytes of the request path.
\* MaxHeaders: header writes made while one request is routed.
MaxDepth == 3
MaxClauses == 2
MaxPathLen == 2
MaxHeaders == 2

\* MaxLiteralLen: bytes of the literal of a StaticLocation in the routing
\* tables that are written out clause by clause (TableSpec); their request
\* paths have up to two literals' worth of bytes.
MaxLiteralLen == 2
MaxSecretLen == 2
MaxSecretByte == 1
MaxSliceLen == 2
MaxSliceByte == 2
MaxSlices == 2
NumSessions == 1
NumGetters == 2
MaxStreams == 1
MaxTime == 3
Timeout == 2

PathBytes == {"a", "b"}
Paths == UNION {[1..n -> PathBytes] : n \in 0..MaxPathLen}
Locations == [1..1 -> PathBytes]
HeaderKeys == {"Vary"}
SecurityHeaderKeys == {"X-Content-Type-Options"}
AllHeaderKeys == HeaderKeys \cup SecurityHeaderKeys
TableBytes == {"/", "a", "b"}
Literals == UNION {[1..n -> TableBytes] : n \in 1..MaxLiteralLen}
TablePaths == UNION {[1..n -> TableBytes] : n \in 0..(2 * MaxLiteralLen)}
HeaderTags == 1..MaxHeaders
FrameIDs == 0..MaxDepth

(***************************************************************************)
(* Program constants.                                                      *)
(***************************************************************************)
FirstSubstreamID == 1

VARIABLES
    \* ---- Stream (the fields of strest.Stream and the locals of serve) ----
    spc,              \* position of the Stream's serving goroutine
    sarg,             \* caller or substream the goroutine is blocked on
    closed,           \* Stream.closed
    streamMembers,    \* keys of Stream.streamMembers
    nextSubstreamID,  \* Stream.nextSubstreamID
    attached,         \* Stream.toUser and Stream.fromUser are non-nil
    toUserClosed,     \* the transport's toUser channel has been closed
    msgs,             \* serve's pending queue
    panicLogged,      \* the deferred recover logged a panic
    \* ---- substreams, by SubstreamID ----
    canReceive,       \* substream.canReceive
    fromUserCloses,   \* number of close() calls on substream.fromUser
    ssClosed,         \* substream.closed
    \* ---- calling goroutines ----
    cpc,              \* position of each caller
    ccmd,             \* the command a caller is sending
    cres,             \* what the caller's last call returned
    cheld,            \* the substream a caller owns
    \* ---- history ----
    nQueued,          \* number of messages serve has appended to msgs
    nToUser,          \* number of messages handed to the transport
    lastToUser,       \* queue position of the last message handed to it
    closeReturned,    \* Stream.Close has returned nil
    afterClose,       \* the call in progress began after that (getSubstream)
                      \* or on a substream already closed (Send, Receive)
    closeCalls        \* close calls the owner has made on the substream,
                      \* counted up to two

streamVars == <<spc, sarg, closed, streamMembers, nextSubstreamID, attached,
                toUserClosed, msgs, panicLogged>>
substreamVars == <<canReceive, fromUserCloses, ssClosed>>
callVars == <<cpc, ccmd, cres, afterClose>>
callerVars == <<callVars, cheld>>
histVars == <<nQueued, nToUser, lastToUser, closeReturned, closeCalls>>
strestVars == <<streamVars, substreamVars, callerVars, histVars>>

VARIABLES
    \* ---- the request being routed (router.Request) ----
    rpc,              \* position of the routing goroutine
    basePath,         \* Request.basePath
    frames,           \* Request.frames
    current,          \* Request.current
    rstack,           \* the RouteBlock.Route calls in progress, outermost first
    rres,             \* the Result a Route call has returned
    sessionCookie,    \* the request's authenticated "session" cookie, once
                      \* CookieAuth has looked for it
    password,         \* what the PasswordAuthenticator made of the form
    session,          \* the session CookieAuth has set on the context
    \* ---- history ----
    nextTag,          \* the next header write gets this tag as its value
    deadTags,         \* header writes of clauses that then failed to match
    authAt,           \* depth of the block whose CookieAuth asked for auth
    authState         \* where routing is with respect to that CookieAuth

requestVars == <<rpc, basePath, frames, current, rstack, rres>>
contextVars == <<sessionCookie, password, session>>
routeHistVars == <<nextTag, deadTags, authAt, authState>>

VARIABLES
    \* ---- the dispatcher (SphyraenaRouter) and the response ----
    table,            \* the RouteBlocks of the router, the root block first;
                      \* empty when the clauses are chosen as routing goes
    holes,            \* Request.holes
    respStatus,       \* how far RunRoute has got with the response
    respHeaders,      \* the header map of the response writer
    respCookies,      \* the cookies set on the response writer
    \* ---- the goroutine runInGoroutine starts for the handler ----
    hpc,              \* where the handler's goroutine is
    hend              \* how handler.ServeStreaming ended in that goroutine

goroutineVars == <<hpc, hend>>
dispatchVars ==
    <<table, holes, respStatus, respHeaders, respCookies, goroutineVars>>
routerVars == <<requestVars, contextVars, routeHistVars, dispatchVars>>

VARIABLES
    \* ---- a Secret and the byte slices it authenticates ----
    secret,           \* Secret.secret
    slices,           \* the byte slices handed to Authenticate
    authed,           \* what Authenticate returned
    unwrapSecret,     \* the secret of the Secret asked to unwrap
    unwrapped,        \* what its UnwrapAuthentication returned
    other,            \* a second sequence of byte slices
    otherAuthed       \* what Authenticate returned for it

secretVars ==
    <<secret, slices, authed, unwrapSecret, unwrapped, other, otherAuthed>>
VARIABLES
    \* ---- a RAMSessionServer, its sessions and the callers of GetSession ----
    now,              \* the time rss.Now() gives
    sessions,         \* the keys of rss.sessions
    nextSessionID,    \* the next ID of the sessionIDGenerator
    ExpirationTime,   \* RAMSession.ExpirationTime, by session
    streams,          \* the keys of RAMSession.streams, by session
    nextStreamID,     \* the next StreamID NewStream draws
    streamClosed,     \* whether the Stream of this ID has been closed
    gpc,              \* where each GetSession call is
    gsk,              \* its argument sk
    gsession,         \* its local session, NoSession for nil
    gnow,             \* its local now and the local now of Expired, while
                      \* the call runs
    gres,             \* what the call returned
    expireDone,       \* sessions whose Expire has been called and returned
    gexpired          \* the session the call looked up had expired before
                      \* the call began, or by Expire before the call returned

sessionVars ==
    <<now, sessions, nextSessionID, ExpirationTime, streams, nextStreamID,
      streamClosed, gpc, gsk, gsession, gnow, gres, expireDone, gexpired>>
supportVars == <<secretVars, sessionVars>>

vars == <<strestVars, routerVars, supportVars>>

(***************************************************************************)
(* Messages.                                                               *)
(***************************************************************************)
\* An EventToUser.  The Stream never looks at the Message field, so the model
\* leaves it out.
EventToUser(src, cl) == [source |-> src, close |-> cl]

message(id) == EventToUser(id, FALSE)

closeMessage(id) == EventToUser(id, TRUE)

\* An entry of msgs: the event, and the position at which serve queued it
\* (1 for the first message ever queued, 2 for the second, ...).
Queued(m, n) == [source |-> m.source, close |-> m.close, seq |-> n]

\* getSubstream{canReceive: false} is what SubstreamToUser sends,
\* getSubstream{canReceive: true} what SubstreamFromUser and Substream send.
GetCommands == {"getSend", "getRecv"}

CommandCanReceive(cmd) == cmd = "getRecv"

(***************************************************************************)
(* NewStream: the state after construction, with the goroutine started.    *)
(***************************************************************************)
StrestInit ==
    /\ spc = "select"
    /\ sarg = 0
    /\ closed = FALSE
    /\ streamMembers = {}
    /\ nextSubstreamID = FirstSubstreamID
    /\ attached = FALSE
    /\ toUserClosed = FALSE
    /\ msgs = <<>>
    /\ panicLogged = FALSE
    /\ canReceive = [i \in SubstreamIDs |-> FALSE]
    /\ fromUserCloses = [i \in SubstreamIDs |-> 0]
    /\ ssClosed = [i \in SubstreamIDs |-> FALSE]
    /\ cpc = [c \in Procs |-> "idle"]
    /\ ccmd = [c \in Procs |-> "none"]
    /\ cres = [c \in Procs |-> "nil"]
    /\ cheld = [c \in Procs |-> 0]
    /\ nQueued = 0
    /\ nToUser = 0
    /\ lastToUser = 0
    /\ closeReturned = FALSE
    /\ afterClose = [c \in Procs |-> FALSE]
    /\ closeCalls = [i \in SubstreamIDs |-> 0]

(***************************************************************************)
(* Secrets (package secret): values and the state before any call.         *)
(***************************************************************************)
\* The value and error a call returns; err is "none" before the call
NoResult == [value |-> <<>>, err |-> "none"]

\* No Secret is in use: the state of the secret package under the
\* specifications of the Stream and of the router.
SecretParked ==
    /\ secret = <<>>
    /\ slices = << <<>> >>
    /\ authed = NoResult
    /\ unwrapSecret = <<>>
    /\ unwrapped = NoResult
    /\ other = << <<>> >>
    /\ otherAuthed = NoResult

(***************************************************************************)
(* Sessions (package session): NewRAMServer, with the clock at its start.  *)
(***************************************************************************)
SessionIDs == 1..NumSessions
StreamIDs == 1..MaxStreams
Getters == 1..NumGetters

\* A nil *RAMSession
NoSession == 0

\* What GetSession returns: a session, or none with an error
SessionResult(rs, err) == [session |-> rs, err |-> err]

SessionInit ==
    /\ now = 0
    /\ sessions = {}
    /\ nextSessionID = 1
    /\ ExpirationTime = [s \in SessionIDs |-> 0]
    /\ streams = [s \in SessionIDs |-> {}]
    /\ nextStreamID = 1
    /\ streamClosed = [st \in StreamIDs |-> FALSE]
    /\ gpc = [g \in Getters |-> "idle"]
    /\ gsk = [g \in Getters |-> 1]
    /\ gsession = [g \in Getters |-> NoSession]
    /\ gnow = [g \in Getters |-> <<0, 0>>]
    /\ gres = [g \in Getters |-> SessionResult(NoSession, "none")]
    /\ expireDone = {}
    /\ gexpired = [g \in Getters |-> FALSE]

(***************************************************************************)
(* Helpers for the calling goroutines.                                     *)
(***************************************************************************)
\* The call of goroutine c returns r.
Return(c, r) ==
    /\ cpc' = [cpc EXCEPT ![c] = "idle"]
    /\ cres' = [cres EXCEPT ![c] = r]
    /\ ccmd' = [ccmd EXCEPT ![c] = "none"]
    /\ afterClose' = [afterClose EXCEPT ![c] = FALSE]

\* Goroutine c moves to position pc inside a call.
Goto(c, pc, cmd, after) ==
    /\ cpc' = [cpc EXCEPT ![c] = pc]
    /\ cres' = [cres EXCEPT ![c] = "pending"]
    /\ ccmd' = [ccmd EXCEPT ![c] = cmd]
    /\ afterClose' = [afterClose EXCEPT ![c] = after]

PendingGets ==
    Cardinality({c \in Callers :
        /\ cpc[c] \in {"cmd_checked", "cmd_send"}
        /\ ccmd[c] \in GetCommands})

SendsInFlight == Cardinality({c \in Callers : cpc[c] = "ss_send"})

\* The closed flag as sendCommand reads it under closedMutex.
sendCommandNowClosed == closed

\* sendCommand: return ErrClosed if the flag is set, else go on to send
\* the command on s.commands (the send itself is commandsSend below).
sendCommand(c, cmd, after) ==
    IF sendCommandNowClosed
    THEN Return(c, "ErrClosed")
    ELSE Goto(c, "cmd_checked", cmd, after)

(***************************************************************************)
(* Calls on the Stream.                                                    *)
(***************************************************************************)
\* Stream.Close
StreamClose(c) ==
    /\ cpc[c] = "idle"
    /\ sendCommand(c, "stop", FALSE)
    /\ UNCHANGED <<streamVars, substreamVars, cheld, histVars>>
    /\ UNCHANGED <<routerVars, supportVars>>

\* Stream.getSubstream, reached through SubstreamToUser, SubstreamFromUser
\* and Substream
getSubstream(c, cmd) ==
    /\ cpc[c] = "idle"
    /\ cmd \in GetCommands
    /\ cheld[c] = 0
    /\ nextSubstreamID + PendingGets <= MaxSubstreams
    /\ sendCommand(c, cmd, closeReturned)
    /\ UNCHANGED <<streamVars, substreamVars, cheld, histVars>>
    /\ UNCHANGED <<routerVars, supportVars>>

\* Stream.SetExternalStream and Stream.DisconnectExternalStream send their
\* command without looking at the closed flag.
ExternalStreamCall(c, cmd) ==
    /\ cpc[c] = "idle"
    /\ cmd \in {"set", "unset"}
    /\ (cmd = "set") = ~attached
    /\ Goto(c, "cmd_send", cmd, FALSE)
    /\ UNCHANGED <<streamVars, substreamVars, cheld, histVars>>
    /\ UNCHANGED <<routerVars, supportVars>>

\* s.commands <- dopanic{...}, the fault injection of TestCoverage
InjectPanic(c) ==
    /\ cpc[c] = "idle"
    /\ ~closed
    /\ Goto(c, "cmd_send", "dopanic", FALSE)
    /\ UNCHANGED <<streamVars, substreamVars, cheld, histVars>>
    /\ UNCHANGED <<routerVars, supportVars>>

\* The caller, past sendCommand's check, reaches the statement
\* s.commands <- sc and blocks in it.
commandsSend(c) ==
    /\ cpc[c] = "cmd_checked"
    /\ cpc' = [cpc EXCEPT ![c] = "cmd_send"]
    /\ UNCHANGED <<streamVars, substreamVars, ccmd, cres, afterClose, cheld,
                   histVars>>
    /\ UNCHANGED <<routerVars, supportVars>>

(***************************************************************************)
(* Stream.serve: the select loop.                                          *)
(***************************************************************************)
\* A faulty variant of the increment: the counter stays where it is.
SameSubstreamID(id) == id

\* s.nextSubstreamID++
IncrementSubstreamID(id) == id + 1

\* case m := <-s.commands
serveCommand(c) ==
    /\ spc = "select"
    /\ cpc[c] = "cmd_send"
    /\ CASE ccmd[c] \in GetCommands ->
              /\ streamMembers' = streamMembers \cup {nextSubstreamID}
              /\ nextSubstreamID' = IncrementSubstreamID(nextSubstreamID)
              /\ canReceive' = [canReceive EXCEPT
                     ![nextSubstreamID] = CommandCanReceive(ccmd[c])]
              /\ spc' = "reply"
              /\ sarg' = c
              /\ cpc' = [cpc EXCEPT ![c] = "await_reply"]
              /\ UNCHANGED <<attached, panicLogged, cres, ccmd, afterClose,
                             closeReturned, msgs>>
         [] ccmd[c] = "set" ->
              /\ attached' = TRUE
              /\ Return(c, "nil")
              /\ UNCHANGED <<spc, sarg, streamMembers, nextSubstreamID,
                             canReceive, panicLogged, closeReturned, msgs>>
         [] ccmd[c] = "unset" ->
              /\ attached' = FALSE
              /\ Return(c, "nil")
              /\ UNCHANGED <<spc, sarg, streamMembers, nextSubstreamID,
                             canReceive, panicLogged, closeReturned, msgs>>
         [] ccmd[c] = "stop" ->
              /\ spc' = "cleanup"
              /\ msgs' = <<>>
              /\ Return(c, "nil")
              /\ closeReturned' = TRUE
              /\ UNCHANGED <<sarg, streamMembers, nextSubstreamID, attached,
                             canReceive, panicLogged>>
         [] ccmd[c] = "dopanic" ->
              /\ spc' = "cleanup"
              /\ msgs' = <<>>
              /\ panicLogged' = TRUE
              /\ Return(c, "nil")
              /\ UNCHANGED <<sarg, streamMembers, nextSubstreamID, attached,
                             canReceive, closeReturned>>
    /\ UNCHANGED <<closed, toUserClosed, fromUserCloses,
                   ssClosed, cheld, nQueued, nToUser, lastToUser, closeCalls>>
    /\ UNCHANGED <<routerVars, supportVars>>

\* msg.ss <- substreamret{ss, nil}, received by getSubstream's <-c
serveReply(c) ==
    /\ spc = "reply"
    /\ sarg = c
    /\ cpc[c] = "await_reply"
    /\ spc' = "select"
    /\ sarg' = 0
    /\ Return(c, "nil")
    /\ cheld' = [cheld EXCEPT ![c] = nextSubstreamID - 1]
    /\ UNCHANGED <<closed, streamMembers, nextSubstreamID, attached,
                   toUserClosed, msgs, panicLogged, substreamVars,
                   histVars>>
    /\ UNCHANGED <<routerVars, supportVars>>

\* A faulty variant of the head selection: the newest message first.
NewestMessage(q) == q[Len(q)]

\* nextMessage = msgs[0]
NextMessage(q) == Head(q)

\* msgs = msgs[:0] when one message is queued, msgs[1:] otherwise
Dequeue(q) == IF Len(q) = 1 THEN <<>> ELSE Tail(q)

\* A faulty variant of the append to msgs: the message goes in twice.
EnqueueTwice(q, m) == Append(Append(q, m), m)

\* msgs = append(msgs, &m)
Enqueue(q, m) == Append(q, m)

\* case sendingToUser <- *nextMessage
serveSendToUser ==
    /\ spc = "select"
    /\ Len(msgs) # 0
    /\ attached
    /\ ~toUserClosed
    /\ nToUser' = nToUser + 1
    /\ lastToUser' = NextMessage(msgs).seq
    /\ msgs' = Dequeue(msgs)
    /\ UNCHANGED <<spc, sarg, closed, streamMembers, nextSubstreamID, attached,
                   toUserClosed, panicLogged, substreamVars,
                   callerVars, nQueued, closeReturned, closeCalls>>
    /\ UNCHANGED <<routerVars, supportVars>>

\* case m := <-s.fromSubstreamToUser, the other end being a Send or a close
serveFromSubstream(c) ==
    /\ spc = "select"
    /\ cpc[c] \in {"ss_send", "ss_close"}
    /\ LET id == cheld[c]
           m == IF cpc[c] = "ss_send" THEN message(id) ELSE closeMessage(id)
       IN IF m.close
          THEN IF id \notin streamMembers
               THEN UNCHANGED <<fromUserCloses, streamMembers, msgs, nQueued>>
               ELSE /\ fromUserCloses' =
                           [fromUserCloses EXCEPT ![id] = @ + 1]
                    /\ streamMembers' = streamMembers \ {id}
                    /\ msgs' = Enqueue(msgs, Queued(m, nQueued + 1))
                    /\ nQueued' = nQueued + 1
          ELSE /\ msgs' = Enqueue(msgs, Queued(m, nQueued + 1))
               /\ nQueued' = nQueued + 1
               /\ UNCHANGED <<fromUserCloses, streamMembers>>
    /\ Return(c, "nil")
    /\ UNCHANGED <<spc, sarg, closed, nextSubstreamID, attached, toUserClosed,
                   panicLogged, canReceive, ssClosed,
                   cheld, nToUser, lastToUser, closeReturned, closeCalls>>
    /\ UNCHANGED <<routerVars, supportVars>>

\* case incoming, ok := <-s.fromUser with ok true
serveFromUser(dest, cl) ==
    /\ spc = "select"
    /\ attached
    /\ CASE dest \notin streamMembers ->
              /\ nQueued < MaxQueued
              /\ msgs' = Enqueue(msgs,
                     Queued(EventToUser(dest, TRUE), nQueued + 1))
              /\ nQueued' = nQueued + 1
              /\ UNCHANGED <<spc, sarg, streamMembers, fromUserCloses>>
         [] dest \in streamMembers /\ ~canReceive[dest] ->
              UNCHANGED <<spc, sarg, streamMembers, fromUserCloses, msgs,
                          nQueued>>
         [] dest \in streamMembers /\ canReceive[dest] /\ cl ->
              /\ fromUserCloses' = [fromUserCloses EXCEPT ![dest] = @ + 1]
              /\ streamMembers' = streamMembers \ {dest}
              /\ UNCHANGED <<spc, sarg, msgs, nQueued>>
         [] dest \in streamMembers /\ canReceive[dest] /\ ~cl ->
              /\ spc' = "deliver"
              /\ sarg' = dest
              /\ UNCHANGED <<streamMembers, fromUserCloses, msgs, nQueued>>
    /\ UNCHANGED <<closed, nextSubstreamID, attached, toUserClosed,
                   panicLogged, canReceive, ssClosed, callerVars,
                   nToUser, lastToUser, closeReturned, closeCalls>>
    /\ UNCHANGED <<routerVars, supportVars>>

\* case incoming, ok := <-s.fromUser with ok false: the transport has closed
\* its fromUser channel, and serve returns
serveFromUserClosed ==
    /\ spc = "select"
    /\ attached
    /\ spc' = "cleanup"
    /\ msgs' = <<>>
    /\ UNCHANGED <<sarg, closed, streamMembers, nextSubstreamID, attached,
                   toUserClosed, panicLogged, substreamVars,
                   callerVars, histVars>>
    /\ UNCHANGED <<routerVars, supportVars>>

\* ss.fromUser <- incoming.Message, received by Receive or drained by close
serveDeliver(c) ==
    /\ spc = "deliver"
    /\ cheld[c] = sarg
    /\ cpc[c] \in {"ss_recv", "ss_close"}
    /\ spc' = "select"
    /\ sarg' = 0
    /\ IF cpc[c] = "ss_recv"
       THEN Return(c, "nil")
       ELSE UNCHANGED callVars
    /\ UNCHANGED <<closed, streamMembers, nextSubstreamID, attached,
                   toUserClosed, msgs, panicLogged, substreamVars,
                   cheld, histVars>>
    /\ UNCHANGED <<routerVars, supportVars>>

(***************************************************************************)
(* Stream.serve's deferred function and Stream.cleanup.                    *)
(***************************************************************************)
\* A faulty variant of cleanup: the closed flag is not set.
cleanupLeavesOpen ==
    /\ spc = "cleanup"
    /\ spc' = "drain"
    /\ UNCHANGED <<sarg, closed, streamMembers, nextSubstreamID, attached,
                   toUserClosed, msgs, panicLogged, substreamVars,
                   callerVars, histVars>>
    /\ UNCHANGED <<routerVars, supportVars>>

\* s.closedMutex.Lock(); s.closed = true; s.closedMutex.Unlock()
cleanupMarkClosed ==
    /\ spc = "cleanup"
    /\ closed' = TRUE
    /\ spc' = "drain"
    /\ UNCHANGED <<sarg, streamMembers, nextSubstreamID, attached,
                   toUserClosed, msgs, panicLogged, substreamVars,
                   callerVars, histVars>>
    /\ UNCHANGED <<routerVars, supportVars>>

\* DRAIN_COMMANDS, case m := <-s.commands: a sender is blocked in the send
cleanupDrain(c) ==
    /\ spc = "drain"
    /\ cpc[c] = "cmd_send"
    /\ IF ccmd[c] \in GetCommands
       THEN /\ spc' = "drain_reply"
            /\ sarg' = c
            /\ cpc' = [cpc EXCEPT ![c] = "await_reply"]
            /\ UNCHANGED <<cres, ccmd, afterClose, closeReturned>>
       ELSE /\ Return(c, "nil")
            /\ closeReturned' = (closeReturned \/ ccmd[c] = "stop")
            /\ UNCHANGED <<spc, sarg>>
    /\ UNCHANGED <<closed, streamMembers, nextSubstreamID, attached,
                   toUserClosed, msgs, panicLogged, substreamVars,
                   cheld, nQueued, nToUser, lastToUser, closeCalls>>
    /\ UNCHANGED <<routerVars, supportVars>>

\* msg.ss <- substreamret{nil, ErrClosed}
cleanupDrainReply(c) ==
    /\ spc = "drain_reply"
    /\ sarg = c
    /\ cpc[c] = "await_reply"
    /\ spc' = "drain"
    /\ sarg' = 0
    /\ Return(c, "ErrClosed")
    /\ UNCHANGED <<closed, streamMembers, nextSubstreamID, attached,
                   toUserClosed, msgs, panicLogged, substreamVars,
                   cheld, histVars>>
    /\ UNCHANGED <<routerVars, supportVars>>

\* DRAIN_COMMANDS, default: no sender is blocked in a send at this moment
cleanupDrainDone ==
    /\ spc = "drain"
    /\ \A c \in Procs : cpc[c] # "cmd_send"
    /\ spc' = "close_subs"
    /\ UNCHANGED <<sarg, closed, streamMembers, nextSubstreamID, attached,
                   toUserClosed, msgs, panicLogged, substreamVars,
                   callerVars, histVars>>
    /\ UNCHANGED <<routerVars, supportVars>>

\* A faulty variant of cleanup: the substreams' channels are left open.
cleanupSkipSubstreams ==
    /\ spc = "close_subs"
    /\ spc' = "close_touser"
    /\ UNCHANGED <<sarg, closed, streamMembers, nextSubstreamID, attached,
                   toUserClosed, msgs, panicLogged, substreamVars,
                   callerVars, histVars>>
    /\ UNCHANGED <<routerVars, supportVars>>

\* A faulty variant of cleanup: close() on the channel of every substream
\* ever handed out, registered or not.
cleanupCloseEverySubstream ==
    /\ spc = "close_subs"
    /\ fromUserCloses' = [i \in SubstreamIDs |->
           IF i < nextSubstreamID THEN fromUserCloses[i] + 1
           ELSE fromUserCloses[i]]
    /\ spc' = "close_touser"
    /\ UNCHANGED <<sarg, closed, streamMembers, nextSubstreamID, attached,
                   toUserClosed, msgs, panicLogged, canReceive,
                   ssClosed, callerVars, histVars>>
    /\ UNCHANGED <<routerVars, supportVars>>

\* for _, substream := range s.streamMembers { close(substream.fromUser) }
cleanupCloseSubstreams ==
    /\ spc = "close_subs"
    /\ fromUserCloses' = [i \in SubstreamIDs |->
           IF i \in streamMembers THEN fromUserCloses[i] + 1
           ELSE fromUserCloses[i]]
    /\ spc' = "close_touser"
    /\ UNCHANGED <<sarg, closed, streamMembers, nextSubstreamID, attached,
                   toUserClosed, msgs, panicLogged, canReceive,
                   ssClosed, callerVars, histVars>>
    /\ UNCHANGED <<routerVars, supportVars>>

\* A faulty variant of the end of serve: the loop is entered again.
servePcRestarted == "select"

\* Where the goroutine is once the deferred function has run: it has exited.
servePcAfterCleanup == "done"

\* if s.toUser != nil { close(s.toUser) }, after which serve's goroutine ends
cleanupCloseToUser ==
    /\ spc = "close_touser"
    /\ toUserClosed' = (toUserClosed \/ attached)
    /\ spc' = servePcAfterCleanup
    /\ UNCHANGED <<sarg, closed, streamMembers, nextSubstreamID, attached,
                   msgs, panicLogged, substreamVars, callerVars,
                   histVars>>
    /\ UNCHANGED <<routerVars, supportVars>>

(***************************************************************************)
(* Substreams (substream.go).                                              *)
(***************************************************************************)
\* The Stream's cleanup has closed this substream's receive channel.
ClosedByShutdown(id) ==
    /\ fromUserCloses[id] > 0
    /\ spc \in {"close_touser", "done"}

\* The owner has called Close on the substream.
ClosedByOwner(id) == closeCalls[id] > 0

SubstreamIsClosed(id) == ClosedByOwner(id) \/ ClosedByShutdown(id)

\* A faulty variant of Send: the closed flag is not looked at.
SendIgnoresClosed(id) == FALSE

\* if sos.closed { return ErrClosed }
SendAlreadyClosed(id) == ssClosed[id]

\* if ros.closed { return nil, ErrClosed }
ReceiveAlreadyClosed(id) == ssClosed[id]

\* A faulty variant of close: the closed flag is not looked at.
closeIgnoresClosed(id) == FALSE

\* if ss.closed { return ErrClosed }
closeAlreadyClosed(id) == ssClosed[id]

\* SendOnlySubstream.Send, up to its select
Send(c) ==
    /\ cpc[c] = "idle"
    /\ cheld[c] # 0
    /\ ~canReceive[cheld[c]]
    /\ \/ nQueued + SendsInFlight < MaxQueued
       \/ SubstreamIsClosed(cheld[c])
    /\ IF SendAlreadyClosed(cheld[c])
       THEN Return(c, "ErrClosed")
       ELSE Goto(c, "ss_send", "none", SubstreamIsClosed(cheld[c]))
    /\ UNCHANGED <<streamVars, substreamVars, cheld, histVars>>
    /\ UNCHANGED <<routerVars, supportVars>>

\* Send's case _, _ = <-sos.fromUser, on the closed channel
SendClosed(c) ==
    /\ cpc[c] = "ss_send"
    /\ fromUserCloses[cheld[c]] > 0
    /\ ssClosed' = [ssClosed EXCEPT ![cheld[c]] = TRUE]
    /\ Return(c, "ErrClosed")
    /\ UNCHANGED <<streamVars, canReceive, fromUserCloses, cheld,
                   histVars>>
    /\ UNCHANGED <<routerVars, supportVars>>

\* ReceiveOnlySubstream.Receive, up to its channel receive
Receive(c) ==
    /\ cpc[c] = "idle"
    /\ cheld[c] # 0
    /\ canReceive[cheld[c]]
    /\ IF ReceiveAlreadyClosed(cheld[c])
       THEN Return(c, "ErrClosed")
       ELSE Goto(c, "ss_recv", "none", SubstreamIsClosed(cheld[c]))
    /\ UNCHANGED <<streamVars, substreamVars, cheld, histVars>>
    /\ UNCHANGED <<routerVars, supportVars>>

\* Receive's msg, ok := <-ros.fromUser with ok false
ReceiveClosed(c) ==
    /\ cpc[c] = "ss_recv"
    /\ fromUserCloses[cheld[c]] > 0
    /\ ssClosed' = [ssClosed EXCEPT ![cheld[c]] = TRUE]
    /\ Return(c, "ErrClosed")
    /\ UNCHANGED <<streamVars, canReceive, fromUserCloses, cheld,
                   histVars>>
    /\ UNCHANGED <<routerVars, supportVars>>

\* substream.close, up to its select loop
substreamClose(c) ==
    /\ cpc[c] = "idle"
    /\ cheld[c] # 0
    /\ closeCalls' = [closeCalls EXCEPT ![cheld[c]] = IF @ < 2 THEN @ + 1 ELSE @]
    /\ IF closeAlreadyClosed(cheld[c])
       THEN /\ Return(c, "ErrClosed")
            /\ UNCHANGED ssClosed
       ELSE /\ ssClosed' = [ssClosed EXCEPT ![cheld[c]] = TRUE]
            /\ Goto(c, "ss_close", "none", FALSE)
    /\ UNCHANGED <<streamVars, canReceive, fromUserCloses, cheld,
                   nQueued, nToUser, lastToUser, closeReturned>>
    /\ UNCHANGED <<routerVars, supportVars>>

\* close's case _, ok := <-ss.fromUser with ok false
closeUpstreamClosed(c) ==
    /\ cpc[c] = "ss_close"
    /\ fromUserCloses[cheld[c]] > 0
    /\ Return(c, "ErrClosed")
    /\ UNCHANGED <<streamVars, substreamVars, cheld, histVars>>
    /\ UNCHANGED <<routerVars, supportVars>>

(***************************************************************************)
(* The Stream's specification.                                             *)
(***************************************************************************)
CallerNext ==
    \/ StreamClose(Driver)
    \/ \E c \in Callers, cmd \in GetCommands : getSubstream(c, cmd)
    \/ \E cmd \in {"set", "unset"} : ExternalStreamCall(Driver, cmd)
    \/ InjectPanic(Driver)
    \/ \E c \in Procs : commandsSend(c)
    \/ \E c \in Callers : Send(c)
    \/ \E c \in Callers : SendClosed(c)
    \/ \E c \in Callers : Receive(c)
    \/ \E c \in Callers : ReceiveClosed(c)
    \/ \E c \in Callers : substreamClose(c)
    \/ \E c \in Callers : closeUpstreamClosed(c)

ServeNext ==
    \/ \E c \in Procs : serveCommand(c)
    \/ \E c \in Callers : serveReply(c)
    \/ serveSendToUser
    \/ \E c \in Callers : serveFromSubstream(c)
    \/ \E dest \in SubstreamIDs, cl \in BOOLEAN : serveFromUser(dest, cl)
    \/ serveFromUserClosed
    \/ \E c \in Callers : serveDeliver(c)

CleanupNext ==
    \/ cleanupMarkClosed
    \/ \E c \in Procs : cleanupDrain(c)
    \/ \E c \in Callers : cleanupDrainReply(c)
    \/ cleanupDrainDone
    \/ cleanupCloseSubstreams
    \/ cleanupCloseToUser

StreamNext ==
    \/ CallerNext
    \/ ServeNext
    \/ CleanupNext


(***************************************************************************)
(* The router: frames and the Request (router/toplevel.go).                *)
(***************************************************************************)
\* http.Header{}
EmptyHeader == [k \in AllHeaderKeys |-> <<>>]

\* http.Header.Add
HeaderAdd(h, key, value) == [h EXCEPT ![key] = Append(@, value)]

\* http.Header.Set
HeaderSet(h, key, value) == [h EXCEPT ![key] = <<value>>]

\* RouterFrame{}
ZeroFrame ==
    [path |-> <<>>, consume |-> 0, headersAdd |-> EmptyHeader,
     headersSet |-> EmptyHeader, cookies |-> {}, holes |-> <<>>,
     isFinal |-> FALSE]

\* A faulty variant of Reset: the headers of the frame are left in place.
ResetKeepingHeaders(rf, path) ==
    [rf EXCEPT !.cookies = {}, !.path = path, !.consume = 0]

\* RouterFrame.Reset
Reset(rf, path) ==
    [rf EXCEPT !.headersAdd = EmptyHeader, !.headersSet = EmptyHeader,
               !.holes = <<>>, !.cookies = {}, !.path = path, !.consume = 0]

\* RouterFrame.remainingPath
remainingPath(rf) == SubSeq(rf.path, rf.consume + 1, Len(rf.path))

\* Request.AddHeader, on the current frame
AddHeader(rf, key, value) ==
    [rf EXCEPT !.headersAdd = HeaderAdd(@, key, value)]

\* Request.SetHeader, on the current frame
SetHeader(rf, key, value) ==
    [rf EXCEPT !.headersSet = HeaderSet(@, key, value)]

\* Request.AddCookie, on the current frame
AddCookie(rf, name) == [rf EXCEPT !.cookies = @ \cup {name}]

\* Request.ConsumePath, on the current frame
ConsumePath(rf, c) == [rf EXCEPT !.consume = @ + c]

\* Request.CurrentPath
CurrentPath(rf) == rf.path

\* A faulty variant of advance: the next frame gets the whole path again.
advanceWholePath ==
    [frames EXCEPT ![current + 1] =
        [Reset(@, frames[current].path)
            EXCEPT !.isFinal = frames[current].isFinal]]

\* Request.advance: the frames once the next frame has been entered
advance ==
    [frames EXCEPT ![current + 1] =
        [Reset(@, remainingPath(frames[current]))
            EXCEPT !.isFinal = frames[current].isFinal]]

\* One frame's share of routeResult: every headersAdd value is added, then
\* every headersSet value is set.
MergeFrame(headers, rf) ==
    [k \in AllHeaderKeys |->
        IF rf.headersSet[k] # <<>>
        THEN <<rf.headersSet[k][Len(rf.headersSet[k])]>>
        ELSE headers[k] \o rf.headersAdd[k]]

\* The headers routeResult merges out of frames 0..k
RECURSIVE MergedHeaders(_)
MergedHeaders(k) ==
    IF k = 0
    THEN MergeFrame(EmptyHeader, frames[0])
    ELSE MergeFrame(MergedHeaders(k - 1), frames[k])

\* The cookies routeResult merges out of frames 0..current
MergedCookies == UNION {frames[k].cookies : k \in 0..current}

\* Request.AddSecurityHole: the hole goes to the Request, not to a frame
AddSecurityHole(hs, hole) == Append(hs, hole)

\* The holes routeResult merges out of frames 0..k
RECURSIVE MergedHoles(_)
MergedHoles(k) ==
    IF k = 0
    THEN frames[0].holes
    ELSE MergedHoles(k - 1) \o frames[k].holes

\* Request.routeResult
routeResult ==
    LET remaining == remainingPath(frames[current])
    IN [Headers |-> MergedHeaders(current),
        Cookies |-> MergedCookies,
        Holes |-> MergedHoles(current),
        RemainingPath |-> remaining,
        PrecedingPath |->
            SubSeq(basePath, 1, Len(basePath) - Len(remaining))]

\* router.Result; a handler is named after the place of its clause in the
\* routing table.
Result(h, sh, rb, err) ==
    [Handler |-> h, StreamHandler |-> sh, RouteBlock |-> rb, Error |-> err]

emptyResult == Result("nil", "nil", "nil", FALSE)

\* newRequest, for a request of the bounded family
RouterInit ==
    /\ rpc = "call"
    /\ basePath \in Paths
    /\ frames = [i \in FrameIDs |->
          IF i = 0 THEN [ZeroFrame EXCEPT !.path = basePath] ELSE ZeroFrame]
    /\ current = 0
    /\ rstack = <<>>
    /\ rres = emptyResult
    /\ sessionCookie = "unread"
    /\ password = "unread"
    /\ session = "none"
    /\ nextTag = 1
    /\ deadTags = {}
    /\ authAt = 0
    /\ authState = "none"
    /\ table = <<>>
    /\ holes = <<>>
    /\ respStatus = "none"
    /\ respHeaders = EmptyHeader
    /\ respCookies = {}
    /\ hpc = "none"
    /\ hend = "none"

(***************************************************************************)
(* The clauses.  Each Route operator gives the current frame as the clause *)
(* leaves it and the Result the clause returns.                            *)
(***************************************************************************)
\* bytes.HasPrefix
HasPrefix(p, l) == Len(l) <= Len(p) /\ SubSeq(p, 1, Len(l)) = l

\* The handler configured in a clause at the place routing has reached: in
\* the auth block of a CookieAuth, after a CookieAuth that asked for
\* authentication, or elsewhere.
HandlerHere ==
    CASE authState = "inAuth" -> "login"
      [] authState = "past" -> "protected"
      [] OTHER -> "public"

\* A faulty variant of StaticLocation: it matches and consumes nothing.
StaticLocationNoConsume(rf, loc) ==
    IF HasPrefix(CurrentPath(rf), loc)
    THEN [frame |-> rf, res |-> Result("nil", "nil", "block", FALSE)]
    ELSE [frame |-> rf, res |-> emptyResult]

\* StaticLocation.Route
StaticLocationRoute(rf, loc) ==
    IF HasPrefix(CurrentPath(rf), loc)
    THEN [frame |-> ConsumePath(rf, Len(loc)),
          res |-> Result("nil", "nil", "block", FALSE)]
    ELSE [frame |-> rf, res |-> emptyResult]

\* ExactLocation.Route
ExactLocationRoute(rf, loc) ==
    IF CurrentPath(rf) = loc
    THEN [frame |-> ConsumePath(rf, Len(loc)),
          res |-> Result("nil", "nil", "block", FALSE)]
    ELSE [frame |-> rf, res |-> emptyResult]

\* A faulty variant of ReturnClause: the handler whatever path is left.
ReturnClauseAnyPath(rf, h) ==
    [frame |-> rf, res |-> Result(h, "nil", "nil", FALSE)]

\* ReturnClause.Route
ReturnClauseRoute(rf, h) ==
    IF Len(CurrentPath(rf)) = 0
    THEN [frame |-> rf, res |-> Result(h, "nil", "nil", FALSE)]
    ELSE [frame |-> rf, res |-> emptyResult]

\* A faulty variant of ForwardClause: the handler only when no path is left.
ForwardClauseNoPath(rf, h) ==
    IF Len(CurrentPath(rf)) = 0
    THEN [frame |-> rf, res |-> Result(h, "nil", "nil", FALSE)]
    ELSE [frame |-> rf, res |-> emptyResult]

\* ForwardClause.Route
ForwardClauseRoute(rf, h) ==
    [frame |-> rf, res |-> Result(h, "nil", "nil", FALSE)]

\* StreamClause.Route
StreamClauseRoute(rf, h) ==
    [frame |-> rf, res |-> Result("nil", h, "nil", FALSE)]

\* What a request can carry: no session cookie, one whose session loads, or
\* one whose session does not load any more; and a form that the
\* PasswordAuthenticator accepts with a session ID, accepts without one, or
\* turns down.
SessionCookies == {"none", "loads", "stale"}

Passwords == {"ok", "noID", "fail"}

\* The request carries what CookieAuth lets through: a session cookie whose
\* session loads, or a form the PasswordAuthenticator accepts.
Authenticated ==
    \/ sessionCookie = "loads"
    \/ sessionCookie = "none" /\ password \in {"ok", "noID"}

\* CookieAuth.Route on a request with cookie ck and form pw: the frame, the
\* Result and the session it sets
CookieAuthRoute(rf, ck, pw) ==
    IF ck = "none"
    THEN IF pw # "fail"
         THEN [frame |-> IF pw = "ok"
                         THEN AddCookie(rf, "session") ELSE rf,
               res |-> emptyResult,
               session |-> "password"]
         ELSE [frame |-> rf,
               res |-> Result("nil", "nil", "authBlock", FALSE),
               session |-> session]
    ELSE IF ck = "stale"
         THEN [frame |-> rf,
               res |-> Result("nil", "nil", "authBlock", FALSE),
               session |-> session]
         ELSE [frame |-> rf, res |-> emptyResult, session |-> "cookie"]

\* A RouterClause of the application: it may write a header into the
\* current frame, and it returns a Result of its choosing.
ApplicationClauseRoute(rf, write, key, value, res) ==
    [frame |-> CASE write = "add" -> AddHeader(rf, key, value)
                 [] write = "set" -> SetHeader(rf, key, value)
                 [] OTHER -> rf,
     res |-> res]

ApplicationResults ==
    {Result(h, sh, rb, err) :
        h \in {"nil", HandlerHere}, sh \in {"nil", HandlerHere},
        rb \in {"nil", "block"}, err \in BOOLEAN}

(***************************************************************************)
(* RouteBlock.Route, one step per clause.                                  *)
(***************************************************************************)
\* The Route call that is running, and the ones that called it
Top == rstack[Len(rstack)]

CallersOfTop == SubSeq(rstack, 1, Len(rstack) - 1)

SetTop(e) == [rstack EXCEPT ![Len(rstack)] = e]

\* rr.advance(), on entry to Route
RouteAdvance ==
    /\ rpc = "call"
    /\ frames' = advance
    /\ current' = current + 1
    /\ rstack' = Append(rstack, [n |-> 0, res |-> emptyResult, mark |-> 0])
    /\ rpc' = "loop"
    /\ UNCHANGED <<basePath, rres, contextVars, routeHistVars, dispatchVars>>
    /\ UNCHANGED <<strestVars, supportVars>>

\* A Result that the Route call receiving it from a sub-block returns in its
\* turn: one with a handler, or one with an error and no RouteBlock.
ReturnedOnwards(res) ==
    \/ res.Handler # "nil"
    \/ res.StreamHandler # "nil"
    \/ res.RouteBlock = "nil" /\ res.Error

\* return res, out of the running Route call; a Result that every caller
\* returns in its turn goes all the way to the caller of the root block.
RouteReturn(res) ==
    /\ rres' = res
    /\ rstack' = IF ReturnedOnwards(res) THEN <<>> ELSE CallersOfTop
    /\ rpc' = "ret"

\* rr.frames[rr.current].Reset(rr.frames[rr.current-1].path), and on to the
\* next clause; the header writes made since the clause was invoked are
\* those of a clause that failed to match.
RouteNoMatch(rf, since, upto) ==
    /\ frames' = [frames EXCEPT ![current] =
                     Reset(rf, frames[current - 1].path)]
    /\ rstack' = SetTop([n |-> Top.n + 1, res |-> emptyResult, mark |-> 0])
    /\ deadTags' = deadTags \cup {t \in HeaderTags : since <= t /\ t < upto}
    /\ rpc' = "loop"

\* The body of Route's loop once router.Route(rr) has returned: out is the
\* frame and the Result, nt the next tag after the clause's writes.
RouteClause(out, nt) ==
    /\ rpc = "loop"
    /\ Top.n < MaxClauses
    /\ nextTag' = nt
    /\ LET res == out.res
       IN IF res.Handler # "nil" \/ res.StreamHandler # "nil"
          THEN /\ RouteReturn(res)
               /\ frames' = [frames EXCEPT ![current] = out.frame]
               /\ UNCHANGED deadTags
          ELSE IF res.RouteBlock # "nil"
          THEN /\ Len(rstack) < MaxDepth
               /\ frames' = [frames EXCEPT ![current] = out.frame]
               /\ rstack' = SetTop([n |-> Top.n, res |-> res,
                                    mark |-> nextTag])
               /\ rpc' = "call"
               /\ UNCHANGED <<rres, deadTags>>
          ELSE IF res.Error
          THEN /\ RouteReturn(res)
               /\ frames' = [frames EXCEPT ![current] = out.frame]
               /\ UNCHANGED deadTags
          ELSE /\ RouteNoMatch(out.frame, nextTag, nt)
               /\ UNCHANGED rres
    /\ UNCHANGED <<basePath, current>>
    /\ UNCHANGED <<strestVars, supportVars>>

RouteStaticLocation(loc) ==
    /\ RouteClause(StaticLocationRoute(frames[current], loc), nextTag)
    /\ UNCHANGED <<contextVars, authAt, authState, dispatchVars>>

RouteExactLocation(loc) ==
    /\ RouteClause(ExactLocationRoute(frames[current], loc), nextTag)
    /\ UNCHANGED <<contextVars, authAt, authState, dispatchVars>>

RouteReturnClause ==
    /\ RouteClause(ReturnClauseRoute(frames[current], HandlerHere), nextTag)
    /\ UNCHANGED <<contextVars, authAt, authState, dispatchVars>>

RouteForwardClause ==
    /\ RouteClause(ForwardClauseRoute(frames[current], HandlerHere), nextTag)
    /\ UNCHANGED <<contextVars, authAt, authState, dispatchVars>>

RouteStreamClause ==
    /\ RouteClause(StreamClauseRoute(frames[current], HandlerHere), nextTag)
    /\ UNCHANGED <<contextVars, authAt, authState, dispatchVars>>

RouteCookieAuth(ck, pw) ==
    /\ authState = "none"
    /\ sessionCookie = "unread"
    /\ (ck = "none") = (pw \in Passwords)
    /\ sessionCookie' = ck
    /\ password' = pw
    /\ LET out == CookieAuthRoute(frames[current], ck, pw)
       IN /\ RouteClause(out, nextTag)
          /\ session' = out.session
          /\ IF out.res.RouteBlock = "authBlock"
             THEN /\ authAt' = Len(rstack)
                  /\ authState' = "inAuth"
             ELSE UNCHANGED <<authAt, authState>>
    /\ UNCHANGED dispatchVars

RouteApplicationClause(write, key, res) ==
    /\ write # "none" => nextTag <= MaxHeaders
    /\ RouteClause(
           ApplicationClauseRoute(frames[current], write, key, nextTag, res),
           IF write = "none" THEN nextTag ELSE nextTag + 1)
    /\ UNCHANGED <<contextVars, authAt, authState, dispatchVars>>

\* A faulty variant of the end of Route: emptyResult without rr.retreat().
RouteExhaustedNoRetreat ==
    /\ rpc = "loop"
    /\ RouteReturn(emptyResult)
    /\ IF Len(rstack) = authAt
       THEN authAt' = 0 /\ authState' = "none"
       ELSE UNCHANGED <<authAt, authState>>
    /\ UNCHANGED <<basePath, frames, current, contextVars, nextTag, deadTags,
                   dispatchVars>>
    /\ UNCHANGED <<strestVars, supportVars>>

\* The loop has run out of clauses: rr.retreat(); return emptyResult
RouteExhausted ==
    /\ rpc = "loop"
    /\ current' = current - 1
    /\ RouteReturn(emptyResult)
    /\ IF Len(rstack) = authAt
       THEN authAt' = 0 /\ authState' = "none"
       ELSE UNCHANGED <<authAt, authState>>
    /\ UNCHANGED <<basePath, frames, contextVars, nextTag, deadTags,
                   dispatchVars>>
    /\ UNCHANGED <<strestVars, supportVars>>

\* res2 := res.RouteBlock.Route(rr) has returned, without a handler, an
\* error or a RouteBlock, to the Route call that made it: that call goes on
\* with the Result res of its own clause
RouteResume ==
    /\ rpc = "ret"
    /\ rstack # <<>>
    /\ LET res2 == rres
           res == Top.res
       IN /\ ~ReturnedOnwards(res2)
          /\ res2.RouteBlock = "nil"
          /\ IF res.Error
             THEN /\ RouteReturn(res)
                  /\ UNCHANGED <<frames, deadTags, authState>>
             ELSE /\ RouteNoMatch(frames[current], Top.mark, nextTag)
                  /\ authState' = IF res.RouteBlock = "authBlock"
                                  THEN "past" ELSE authState
                  /\ UNCHANGED rres
    /\ UNCHANGED <<basePath, current, contextVars, nextTag, authAt,
                   dispatchVars>>
    /\ UNCHANGED <<strestVars, supportVars>>

\* panic("RouteBlock.Route return a non-nil RouteBlock")
RoutePanic ==
    /\ rpc = "ret"
    /\ rstack # <<>>
    /\ rres.Handler = "nil" /\ rres.StreamHandler = "nil"
    /\ rres.RouteBlock # "nil"
    /\ rpc' = "panic"
    /\ UNCHANGED <<basePath, frames, current, rstack, rres, contextVars,
                   routeHistVars, dispatchVars>>
    /\ UNCHANGED <<strestVars, supportVars>>

\* SphyraenaRouter.getStrest: the root block's Route has returned
getStrest ==
    /\ rpc = "ret"
    /\ rstack = <<>>
    /\ rpc' = "done"
    /\ UNCHANGED <<basePath, frames, current, rstack, rres, contextVars,
                   routeHistVars, dispatchVars>>
    /\ UNCHANGED <<strestVars, supportVars>>

RouterNext ==
    \/ RouteAdvance
    \/ \E loc \in Locations : RouteStaticLocation(loc)
    \/ \E loc \in Locations : RouteExactLocation(loc)
    \/ RouteReturnClause
    \/ RouteForwardClause
    \/ RouteStreamClause
    \/ \E ck \in SessionCookies, pw \in Passwords \cup {"unread"} :
           RouteCookieAuth(ck, pw)
    \/ \E write \in {"none", "add", "set"}, key \in HeaderKeys,
          res \in ApplicationResults :
           RouteApplicationClause(write, key, res)
    \/ RouteExhausted
    \/ RouteResume
    \/ RoutePanic
    \/ getStrest

\* Under StreamSpec no request is routed; under RouterSpec the Stream stays
\* as NewStream left it.
RouterParked ==
    /\ RouterInit
    /\ basePath = <<>>

\* A Stream just constructed, with no request being routed.
StreamInit == StrestInit /\ RouterParked /\ SecretParked /\ SessionInit

StreamSpec == StreamInit /\ [][StreamNext]_vars

\* A request about to be routed; its Stream is constructed and left alone.
RequestInit == StrestInit /\ RouterInit /\ SecretParked /\ SessionInit

RouterSpec == RequestInit /\ [][RouterNext]_vars

(***************************************************************************)
(* Routing tables written out clause by clause, as the RouteBlock builders *)
(* make them.  A table is the sequence of its RouteBlocks, the root block  *)
(* first; a clause names its sub-block by its place in that sequence.      *)
(***************************************************************************)
Clause(kind, loc, h, block, write, key) ==
    [kind |-> kind, loc |-> loc, h |-> h, block |-> block, write |-> write,
     key |-> key]

\* &StaticLocation{path, rrb}
StaticLocationOf(loc, block) ==
    Clause("StaticLocation", loc, "nil", block, "none", "none")

\* ReturnClause{h}
ReturnClauseOf(h) == Clause("ReturnClause", <<>>, h, 0, "none", "none")

\* ForwardClause{h}
ForwardClauseOf(h) == Clause("ForwardClause", <<>>, h, 0, "none", "none")

\* StreamClause{h}
StreamClauseOf(h) == Clause("StreamClause", <<>>, h, 0, "none", "none")

\* A RouterClause of the application that writes a header or opens a
\* security hole and hands the request on to its RouteBlock.
WritingClauseOf(write, key, block) ==
    Clause("Application", <<>>, "nil", block, write, key)

\* DirectReturn(h)
DirectReturn(h) == <<ReturnClauseOf(h)>>

\* sr.AddLocationReturn(l, h) on a new router
TableLocationReturn(l, h) ==
    << <<StaticLocationOf(l, 2)>>, DirectReturn(h) >>

\* sr.AddLocationForward(l, h) on a new router
TableLocationForward(l, h) ==
    << <<StaticLocationOf(l, 2)>>, <<ForwardClauseOf(h)>> >>

\* sr.AddStreamForward(l, h) on a new router
TableStreamForward(l, h) ==
    << <<StaticLocationOf(l, 2)>>, <<StreamClauseOf(h)>> >>

\* sr.AddLocationReturn(l1, SF1); sr.AddLocationReturn(l2, SF2)
TableTwoReturns(l1, l2) ==
    << <<StaticLocationOf(l1, 2), StaticLocationOf(l2, 3)>>,
       DirectReturn("SF1"), DirectReturn("SF2") >>

\* sr.AddLocationForward(l1, SF1); sr.AddLocationForward(l2, SF2)
TableTwoForwards(l1, l2) ==
    << <<StaticLocationOf(l1, 2), StaticLocationOf(l2, 3)>>,
       <<ForwardClauseOf("SF1")>>, <<ForwardClauseOf("SF2")>> >>

\* l1 := sr.Location(l1); l1.AddLocationReturn(l2, SF2)
TableTree(l1, l2) ==
    << <<StaticLocationOf(l1, 2)>>, <<StaticLocationOf(l2, 3)>>,
       DirectReturn("SF2") >>

\* A clause of the application that writes, over a block that forwards
\* every path to SF1
TableWriting(write, key) ==
    << <<WritingClauseOf(write, key, 2)>>, <<ForwardClauseOf("SF1")>> >>

\* A clause of the application that writes, over a block whose one clause
\* writes to the same header in its own frame, over a block that forwards
\* every path to SF1
TableWritingNested(w1, w2, key) ==
    << <<WritingClauseOf(w1, key, 2)>>, <<WritingClauseOf(w2, key, 3)>>,
       <<ForwardClauseOf("SF1")>> >>

\* A clause may call SetHeader and AddHeader in one Route call, either first
TwoWrites == {"setadd", "addset"}

TwoLiterals == {ll \in Literals \X Literals : ll[1] # ll[2]}

Tables ==
    {TableLocationReturn(l, "SF1") : l \in Literals}
        \cup {TableLocationForward(l, "SF1") : l \in Literals}
        \cup {TableStreamForward(l, "SF1") : l \in Literals}
        \cup {TableTwoReturns(ll[1], ll[2]) : ll \in TwoLiterals}
        \cup {TableTwoForwards(ll[1], ll[2]) : ll \in TwoLiterals}
        \cup {TableTree(ll[1], ll[2]) : ll \in Literals \X Literals}
        \cup {TableWriting(w, k) : w \in {"add", "set"}, k \in AllHeaderKeys}
        \cup {TableWriting("hole", "none")}
        \cup {TableWriting(w, k) : w \in TwoWrites, k \in AllHeaderKeys}
        \cup {TableWritingNested(w1, w2, k) :
                 w1 \in {"add", "set"}, w2 \in {"add", "set"},
                 k \in AllHeaderKeys}

\* newRequest for a request to a router with one of these tables
TableInit ==
    /\ rpc = "call"
    /\ basePath \in TablePaths
    /\ frames = [i \in FrameIDs |->
          IF i = 0 THEN [ZeroFrame EXCEPT !.path = basePath] ELSE ZeroFrame]
    /\ current = 0
    /\ rstack = <<>>
    /\ rres = emptyResult
    /\ sessionCookie = "unread"
    /\ password = "unread"
    /\ session = "none"
    /\ nextTag = 1
    /\ deadTags = {}
    /\ authAt = 0
    /\ authState = "none"
    /\ table \in Tables
    /\ holes = <<>>
    /\ respStatus = "none"
    /\ respHeaders = EmptyHeader
    /\ respCookies = {}
    /\ hpc = "none"
    /\ hend = "none"

\* The RouteBlock whose Route call is the d-th of the calls in progress
RECURSIVE BlockOf(_)
BlockOf(d) ==
    IF d = 1
    THEN 1
    ELSE table[BlockOf(d - 1)][rstack[d - 1].n + 1].block

\* rb.clauses of the running call
TopClauses == table[BlockOf(Len(rstack))]

\* The loop of the running call is at a clause of its block.
AtClause(kind) ==
    /\ rpc = "loop"
    /\ Top.n < Len(TopClauses)
    /\ TopClauses[Top.n + 1].kind = kind

\* A faulty variant of the loop over rb.clauses: the first clause every time.
FirstClause == TopClauses[1]

\* A faulty variant of the loop over rb.clauses: from the last clause down.
ReversedClause == TopClauses[Len(TopClauses) - Top.n]

\* router, the loop variable of for _, router := range rb.clauses
TopClause == TopClauses[Top.n + 1]

TableStaticLocation ==
    /\ AtClause("StaticLocation")
    /\ RouteStaticLocation(TopClause.loc)

TableReturnClause ==
    /\ AtClause("ReturnClause")
    /\ RouteClause(ReturnClauseRoute(frames[current], TopClause.h), nextTag)
    /\ UNCHANGED <<contextVars, authAt, authState, dispatchVars>>

TableForwardClause ==
    /\ AtClause("ForwardClause")
    /\ RouteClause(ForwardClauseRoute(frames[current], TopClause.h), nextTag)
    /\ UNCHANGED <<contextVars, authAt, authState, dispatchVars>>

TableStreamClause ==
    /\ AtClause("StreamClause")
    /\ RouteClause(StreamClauseRoute(frames[current], TopClause.h), nextTag)
    /\ UNCHANGED <<contextVars, authAt, authState, dispatchVars>>

\* The number of header values a writing clause writes
WritesOf(write) == IF write \in TwoWrites THEN 2 ELSE 1

\* The Route of a clause of the application that calls AddHeader or
\* SetHeader, or one and then the other, before it returns its Result
WritingClauseRoute(rf, write, key, value, res) ==
    CASE write = "setadd" ->
            ApplicationClauseRoute(
                ApplicationClauseRoute(rf, "set", key, value, res).frame,
                "add", key, value + 1, res)
      [] write = "addset" ->
            ApplicationClauseRoute(
                ApplicationClauseRoute(rf, "add", key, value, res).frame,
                "set", key, value + 1, res)
      [] OTHER -> ApplicationClauseRoute(rf, write, key, value, res)

\* The application's clause calls AddHeader, SetHeader or AddSecurityHole
\* and returns its RouteBlock.
TableWritingClause ==
    /\ AtClause("Application")
    /\ LET c == TopClause
           toBlock == Result("nil", "nil", "block", FALSE)
       IN IF c.write = "hole"
          THEN /\ holes' = AddSecurityHole(holes, "AllowBrowserTypeGuessing")
               /\ RouteClause([frame |-> frames[current], res |-> toBlock],
                              nextTag)
          ELSE /\ nextTag + WritesOf(c.write) - 1 <= MaxHeaders
               /\ RouteClause(
                      WritingClauseRoute(frames[current], c.write, c.key,
                                         nextTag, toBlock),
                      nextTag + WritesOf(c.write))
               /\ UNCHANGED holes
    /\ UNCHANGED <<contextVars, authAt, authState, table, respStatus,
                   respHeaders, respCookies, goroutineVars>>

\* The loop of the running call has run out of clauses.
TableExhausted ==
    /\ rpc = "loop"
    /\ Top.n = Len(TopClauses)
    /\ RouteExhausted

(***************************************************************************)
(* The dispatcher: SphyraenaRouter.RunRoute and the handler it runs.       *)
(***************************************************************************)
\* for key, val := range routeResult.Headers { rw.Header()[key] = val }; the
\* values the clauses wrote, as the strings the response carries
CopyHeaders(resp, hs) ==
    [k \in AllHeaderKeys |->
        IF hs[k] # <<>>
        THEN [i \in 1..Len(hs[k]) |-> ToString(hs[k][i])]
        ELSE resp[k]]

\* security.applyHoles
allowBrowserTypeGuessing(hs) ==
    \E i \in 1..Len(hs) : hs[i] = "AllowBrowserTypeGuessing"

\* hole.ApplySecurityHeaders
ApplySecurityHeaders(headers, hs) ==
    IF ~allowBrowserTypeGuessing(hs)
    THEN HeaderSet(headers, "X-Content-Type-Options", "nosniff")
    ELSE headers

\* RunRoute, from the return of getStrest to the point where it runs the
\* handler.  The body and the headers net/http writes for its own not-found
\* page are not part of the model.
RunRoute ==
    /\ rpc = "done"
    /\ respStatus = "none"
    /\ LET streamingHandler == rres.Handler
           rr == routeResult
       IN IF rres.Error
          THEN /\ respStatus' = "panic"
               /\ UNCHANGED <<respHeaders, respCookies>>
          ELSE IF streamingHandler = "nil"
          THEN /\ respStatus' = "NotFound"
               /\ UNCHANGED <<respHeaders, respCookies>>
          ELSE /\ respHeaders' =
                      ApplySecurityHeaders(CopyHeaders(respHeaders, rr.Headers),
                                           rr.Holes)
               /\ respCookies' = respCookies \cup rr.Cookies
               /\ respStatus' = "serving"
    /\ UNCHANGED <<requestVars, contextVars, routeHistVars, table, holes,
                   goroutineVars>>
    /\ UNCHANGED <<strestVars, supportVars>>

\* What a handler may do to a header of the response through rw.Header()
HandlerWrites == {"none", "set", "del"}

\* The header map after the handler has written to it through rw.Header()
HandlerWrite(headers, write, key) ==
    CASE write = "set" -> HeaderSet(headers, key, "handler")
      [] write = "del" -> [headers EXCEPT ![key] = <<>>]
      [] OTHER -> headers

\* streamingHandler.ServeStreaming(rw, req) called by RunRoute itself, when the
\* handler or the request cannot stream: the handler writes to the response's
\* header map, or leaves it alone
ServeStreaming(write, key) ==
    /\ respStatus = "serving"
    /\ respHeaders' = HandlerWrite(respHeaders, write, key)
    /\ respStatus' = "served"
    /\ UNCHANGED <<requestVars, contextVars, routeHistVars, table, holes,
                   respCookies, goroutineVars>>
    /\ UNCHANGED <<strestVars, supportVars>>

\* The ways a call of handler.ServeStreaming can end in its goroutine: it
\* returns, it panics with a value, it panics with nil, or it ends the
\* goroutine with runtime.Goexit.
HandlerEnds == {"return", "panic", "panicNil", "Goexit"}

\* What recover() gives the deferred function: the panic's value, or nil when
\* there is no panic to recover.  For panic(nil) the value depends on the Go
\* release the router is built with: nil, or a *runtime.PanicNilError.
Recovered(how) ==
    CASE how = "panic" -> {"value"}
      [] how = "panicNil" -> {"nil", "value"}
      [] OTHER -> {"nil"}

\* runInGoroutine up to its receive from done: it makes the unbuffered
\* channel, starts the goroutine and blocks.
runInGoroutine ==
    /\ respStatus = "serving"
    /\ respStatus' = "waiting"
    /\ hpc' = "running"
    /\ UNCHANGED <<requestVars, contextVars, routeHistVars, table, holes,
                   respHeaders, respCookies, hend>>
    /\ UNCHANGED <<strestVars, supportVars>>

\* The goroutine runs handler.ServeStreaming and comes to its send on done:
\* done <- nil after a return, done <- &PanicInfo{r} in the deferred function
\* when recover() gave a value.  With nothing recovered and no return the
\* goroutine ends without sending.
goroutineServe(write, key, how, r) ==
    /\ hpc = "running"
    /\ r \in Recovered(how)
    /\ respHeaders' = HandlerWrite(respHeaders, write, key)
    /\ hend' = how
    /\ hpc' = CASE how = "return" -> "sendNil"
                [] r # "nil" -> "sendPanic"
                [] OTHER -> "exited"
    /\ UNCHANGED <<requestVars, contextVars, routeHistVars, table, holes,
                   respStatus, respCookies>>
    /\ UNCHANGED <<strestVars, supportVars>>

\* What runInGoroutine does with what it received from done
afterDone(panicReason) ==
    IF panicReason # "nil" THEN "repanicked" ELSE "served"

\* The send on done meets runInGoroutine's receive: the goroutine ends, and
\* runInGoroutine returns or panics with the reason it received.
doneRendezvous ==
    /\ hpc \in {"sendNil", "sendPanic"}
    /\ respStatus = "waiting"
    /\ hpc' = "exited"
    /\ respStatus' = afterDone(IF hpc = "sendPanic" THEN "value" ELSE "nil")
    /\ UNCHANGED <<requestVars, contextVars, routeHistVars, table, holes,
                   respHeaders, respCookies, hend>>
    /\ UNCHANGED <<strestVars, supportVars>>

TableNext ==
    \/ RouteAdvance
    \/ TableStaticLocation
    \/ TableReturnClause
    \/ TableForwardClause
    \/ TableStreamClause
    \/ TableWritingClause
    \/ TableExhausted
    \/ RouteResume
    \/ getStrest
    \/ RunRoute
    \/ \E write \in HandlerWrites, key \in AllHeaderKeys :
           ServeStreaming(write, key)
    \/ runInGoroutine
    \/ \E write \in HandlerWrites, key \in AllHeaderKeys,
          how \in HandlerEnds, r \in {"nil", "value"} :
           goroutineServe(write, key, how, r)
    \/ doneRendezvous

\* A request about to be routed by a router with a written-out table.
TableRequestInit == StrestInit /\ TableInit /\ SecretParked /\ SessionInit

TableSpec == TableRequestInit /\ [][TableNext]_vars

\* The steps by which a call already in progress goes on without the
\* Stream's goroutine.
CallProgress(c) ==
    \/ commandsSend(c)
    \/ SendClosed(c)
    \/ ReceiveClosed(c)
    \/ closeUpstreamClosed(c)

(***************************************************************************)
(* Properties of the router.                                               *)
(***************************************************************************)
\* The dispatcher has the outcome of routing, and it carries a handler.
RoutedToHandler ==
    /\ rpc = "done"
    /\ rres.Handler # "nil" \/ rres.StreamHandler # "nil"

\* The header values the RouteResult carries
RouteResultHeaderValues ==
    UNION {{routeResult.Headers[k][i] : i \in 1..Len(routeResult.Headers[k])} :
              k \in AllHeaderKeys}

\* C1: when a request has been routed to a handler, the RouteResult holds no
\* header written (by AddHeader or SetHeader, in the clause's own frame or
\* in a frame of the sub-block it recursed into) by a clause that then
\* failed to match.
C1_FailedClauseLeavesNoHeader ==
    RoutedToHandler => RouteResultHeaderValues \cap deadTags = {}

\* A clause wrote the first header and failed to match; a later clause wrote
\* the second and the request was routed to a handler with it.
C1_Witness ==
    /\ RoutedToHandler
    /\ deadTags = {1}
    /\ RouteResultHeaderValues = {2}

\* C2: a request that CookieAuth found to be unauthenticated is never routed
\* to the handler of a clause placed after the CookieAuth.
C2_CookieAuthDefaultDeny ==
    (rpc = "done" /\ sessionCookie # "unread" /\ ~Authenticated)
        => (rres.Handler # "protected" /\ rres.StreamHandler # "protected")

\* C3: the Result a RouteBlock.Route call returns has a nil RouteBlock.
C3_RouteYieldsNoRouteBlock ==
    rpc \in {"ret", "done"} => rres.RouteBlock = "nil"

(***************************************************************************)
(* Properties of the Stream and its substreams.                            *)
(***************************************************************************)
\* The goroutine of serve has exited: nothing receives on s.commands again.
ServeGone == spc = "done"

\* Goroutine c is inside getSubstream, before or in the send on s.commands.
InGetSubstream(c) ==
    /\ cpc[c] \in {"cmd_checked", "cmd_send"}
    /\ ccmd[c] \in GetCommands

\* C4: a getSubstream that begins after Stream.Close has returned is never
\* left blocked: it cannot be in its send on s.commands once the serving
\* goroutine has run its cleanup and exited.
C4_GetSubstreamAfterCloseNeverBlocks ==
    \A c \in Callers : (InGetSubstream(c) /\ afterClose[c]) => ~ServeGone

\* C5: a getSubstream that began before Stream.Close returned, and so runs
\* while the Stream is closing, completes: it is never still in its send on
\* s.commands once the serving goroutine has exited.
C5_GetSubstreamWhileClosingCompletes ==
    \A c \in Callers : (InGetSubstream(c) /\ ~afterClose[c]) => ~ServeGone

\* C6: a call to a substream's close always returns.  While a close is in
\* progress the Stream's goroutine, or a call that is already in progress,
\* can take a step: the close is never left in a state that nothing but
\* another goroutine beginning a new call could end.
C6_SubstreamCloseAlwaysReturns ==
    \A c \in Callers :
        cpc[c] = "ss_close" =>
            ENABLED (ServeNext \/ CleanupNext \/ \E p \in Procs : CallProgress(p))

\* C7: a second close of a substream returns ErrClosed at once, without
\* blocking, whatever the state of the Stream.
C7_SecondCloseReturnsErrClosed ==
    [][\A c \in Callers :
          (cheld[c] # 0 /\ closeCalls[cheld[c]] > 0 /\ substreamClose(c))
              => (cpc'[c] = "idle" /\ cres'[c] = "ErrClosed")]_vars

\* A second close has returned ErrClosed while the Stream was running.
C7_Witness ==
    \E c \in Callers :
        /\ cheld[c] # 0
        /\ closeCalls[cheld[c]] = 2
        /\ cpc[c] = "idle"
        /\ cres[c] = "ErrClosed"
        /\ spc = "select"

\* The states of the Stream's life.
StreamPhase(pc) ==
    IF pc \in {"select", "reply", "deliver"} THEN 0    \* Running
    ELSE IF pc = "done" THEN 2                         \* Closed
    ELSE 1                                             \* Closing

\* C8: the Stream moves only Running to Closing to Closed; the closed flag is
\* never cleared; the loop never runs again; once Closed, no substream is
\* registered any more and no message is relayed in either direction.
C8_StreamLifecycle ==
    [][/\ StreamPhase(spc') \in {StreamPhase(spc), StreamPhase(spc) + 1}
       /\ closed => closed'
       /\ StreamPhase(spc) = 2 =>
             /\ streamMembers' = streamMembers
             /\ nextSubstreamID' = nextSubstreamID
             /\ nQueued' = nQueued
             /\ nToUser' = nToUser
             /\ \A c \in Callers :
                   (cpc[c] # "idle" /\ cpc'[c] = "idle")
                       => cres'[c] = "ErrClosed"]_vars

\* The Stream is Closed and a call made on it has been turned away.
C8_Witness ==
    /\ spc = "done"
    /\ closed
    /\ nextSubstreamID > FirstSubstreamID
    /\ \E c \in Callers : cpc[c] = "idle" /\ cres[c] = "ErrClosed"

\* C9: the k-th message handed to the transport is the k-th message serve
\* queued, and the queue holds, in order, the messages queued after it.
C9_TransportOrderIsQueueOrder ==
    /\ lastToUser = nToUser
    /\ nToUser <= nQueued
    /\ \A i \in 1..Len(msgs) : msgs[i].seq = nToUser + i

\* Two messages have gone to the transport and another one waits.
C9_Witness ==
    /\ nToUser >= 2
    /\ Len(msgs) >= 1

\* C10: a Send or a Receive on a closed substream returns ErrClosed, hands
\* no message to the Stream and yields none.
C10_ClosedSubstreamRefuses ==
    [][\A c \in Callers :
          /\ (cheld[c] # 0 /\ SubstreamIsClosed(cheld[c])
                  /\ (Send(c) \/ Receive(c)))
                 => /\ cpc'[c] = "idle" => cres'[c] = "ErrClosed"
                    /\ nQueued' = nQueued
          /\ (afterClose[c] /\ cpc[c] \in {"ss_send", "ss_recv"}
                  /\ cpc'[c] = "idle")
                 => /\ cres'[c] = "ErrClosed"
                    /\ nQueued' = nQueued]_vars

\* The owner of a send-only substream has closed it once, the close has
\* returned nil, and a Send on it has since returned ErrClosed, all while the
\* Stream was running.
C10_Witness ==
    \E c \in Callers :
        /\ cheld[c] # 0
        /\ ~canReceive[cheld[c]]
        /\ closeCalls[cheld[c]] = 1
        /\ cpc[c] = "idle"
        /\ cres[c] = "ErrClosed"
        /\ spc = "select"

\* Every substream still registered has had its receive channel closed,
\* exactly once.
RegisteredSubstreamsClosed ==
    \A id \in streamMembers : fromUserCloses[id] = 1

\* C11: when the Stream shuts down, cleanup closes the receive channel of
\* every substream still registered and then, if a transport is attached,
\* the channel to the transport; once it has, every owner blocked in Send or
\* Receive has a closed channel to wake up on.
C11_ShutdownClosesChannels ==
    /\ spc \in {"close_touser", "done"} => RegisteredSubstreamsClosed
    /\ toUserClosed => RegisteredSubstreamsClosed
    /\ spc = "done" => (attached => toUserClosed)
    /\ spc = "done" =>
          \A c \in Callers :
              cpc[c] \in {"ss_send", "ss_recv"} => fromUserCloses[cheld[c]] > 0

\* The Stream has shut down with a transport attached while an owner was
\* blocked in Receive and another in Send: both channels they wait on are
\* closed, and so is the channel to the transport.
C11_Witness ==
    /\ spc = "done"
    /\ attached /\ toUserClosed
    /\ \E c \in Callers : cpc[c] = "ss_recv" /\ fromUserCloses[cheld[c]] = 1
    /\ \E c \in Callers : cpc[c] = "ss_send" /\ fromUserCloses[cheld[c]] = 1

\* C12: after a panic in the serving loop has been caught and logged, the
\* Stream is Closing or Closed, cleanup can always take its next step, and
\* once Closed the flag is set, every registered substream's receive channel
\* is closed and so is the channel to an attached transport.
C12_PanicRunsWholeCleanup ==
    panicLogged =>
        /\ StreamPhase(spc) >= 1
        /\ spc # "done" => ENABLED CleanupNext
        /\ spc \notin {"cleanup", "done"} => closed
        /\ spc = "done" =>
              /\ closed
              /\ RegisteredSubstreamsClosed
              /\ attached => toUserClosed

\* A panic was logged and the Stream, which had a substream registered and a
\* transport attached, is Closed.
C12_Witness ==
    /\ panicLogged
    /\ spc = "done"
    /\ closed
    /\ streamMembers # {}
    /\ attached /\ toUserClosed

(***************************************************************************)
(* Properties of written-out routing tables and of the dispatcher.         *)
(***************************************************************************)
\* The request has been routed and its outcome handed to the dispatcher.
Routed == rpc = "done"

NoHandler == rres.Handler = "nil" /\ rres.StreamHandler = "nil"

\* The literals of the root block's first and second clause
FirstLiteral == table[1][1].loc

SecondLiteral == table[1][2].loc

\* The request path is literal l followed by at least one more byte.
Extends(p, l) == HasPrefix(p, l) /\ Len(p) > Len(l)

\* C13: when the response has been served and no security hole was opened
\* while the request was routed, X-Content-Type-Options is nosniff whatever
\* the routing table and the handler wrote to that header.
C13_SecurityHeadersTakePrecedence ==
    (respStatus = "served" /\ holes = <<>>)
        => respHeaders["X-Content-Type-Options"] = <<"nosniff">>

\* C14: a ReturnClause under a StaticLocation yields its handler only when
\* no byte of path remains after the location's literal was consumed, and a
\* request path that extends the literal of a location holding nothing but
\* the ReturnClause resolves to no handler.
C14_ReturnNeedsWholePathConsumed ==
    /\ [][(TableReturnClause /\ rres'.Handler # "nil")
             => /\ CurrentPath(frames[current]) = <<>>
                /\ remainingPath(frames[current - 1]) = <<>>]_vars
    /\ [](Routed /\ Len(table[1]) = 1
             /\ table = TableLocationReturn(FirstLiteral, "SF1")
             /\ Extends(basePath, FirstLiteral)
          => NoHandler)

\* A path that extends the literal went into the location's block, was turned
\* down by the ReturnClause there, and resolved to no handler.
C14_Witness ==
    /\ Routed
    /\ Len(table[1]) = 1
    /\ table = TableLocationReturn(FirstLiteral, "SF1")
    /\ Extends(basePath, FirstLiteral)
    /\ frames[2].path = basePath
    /\ NoHandler

\* C15: with AddLocationReturn(L, H) as the only route, the request path L
\* resolves to H and a path that is L followed by more bytes resolves to no
\* handler.
C15_LocationReturnIsExact ==
    (Routed /\ Len(table[1]) = 1
        /\ table = TableLocationReturn(FirstLiteral, "SF1"))
    => /\ basePath = FirstLiteral => rres.Handler = "SF1"
       /\ Extends(basePath, FirstLiteral) => NoHandler

\* The path L, of the greatest length a literal has, resolved to H.
C15_Witness ==
    /\ Routed
    /\ Len(table[1]) = 1
    /\ table = TableLocationReturn(FirstLiteral, "SF1")
    /\ basePath = FirstLiteral
    /\ Len(basePath) = MaxLiteralLen
    /\ rres.Handler = "SF1"

\* Literal l is followed in path p by a further byte of the same path
\* segment: neither the last byte of l nor the byte after it is a slash.
PartialSegment(l, p) ==
    /\ Extends(p, l)
    /\ l[Len(l)] # "/"
    /\ p[Len(l) + 1] # "/"

\* C16: a StaticLocation never matches a path in which its literal is
\* followed by further bytes of the same segment: Route never recurses into
\* the sub-block of a StaticLocation on such a path.
C16_NoPartialSegmentMatch ==
    (rpc = "call" /\ rstack # <<>> /\ TopClause.kind = "StaticLocation")
        => ~PartialSegment(TopClause.loc, CurrentPath(frames[current]))

TwoSiblings(t) == Len(table) = 3 /\ Len(table[1]) = 2 /\ table = t

NestedLiteral == table[2][1].loc

IsTree ==
    /\ Len(table) = 3
    /\ Len(table[1]) = 1
    /\ table[2][1].kind = "StaticLocation"
    /\ table = TableTree(FirstLiteral, NestedLiteral)

\* C18: with Location(L1) containing AddLocationReturn(L2, H), the path L1 L2
\* resolves to H, the path L1 resolves to no handler, and so does L1
\* followed by anything but L2.
C18_TreeOfLocations ==
    (Routed /\ IsTree)
    => /\ basePath = FirstLiteral \o NestedLiteral => rres.Handler = "SF2"
       /\ basePath = FirstLiteral => NoHandler
       /\ (Extends(basePath, FirstLiteral)
              /\ basePath # FirstLiteral \o NestedLiteral) => NoHandler

\* /test1/test2 resolved to the handler, three blocks deep.
C18_Witness ==
    /\ Routed
    /\ IsTree
    /\ FirstLiteral = <<"/", "a">>
    /\ NestedLiteral = <<"/", "b">>
    /\ basePath = <<"/", "a", "/", "b">>
    /\ rres.Handler = "SF2"
    /\ current = 3

\* C19: with AddLocationForward(L, H) as the only route, every request path
\* that begins with L resolves to H.
C19_ForwardIgnoresRemainingPath ==
    (Routed /\ Len(table[1]) = 1
        /\ table = TableLocationForward(FirstLiteral, "SF1")
        /\ HasPrefix(basePath, FirstLiteral))
    => rres.Handler = "SF1"

\* AddLocationForward("/", H) resolved a path of two segments to H.
C19_Witness ==
    /\ Routed
    /\ table = TableLocationForward(<<"/">>, "SF1")
    /\ basePath = <<"/", "a", "/", "b">>
    /\ rres.Handler = "SF1"
    /\ remainingPath(frames[current]) = <<"a", "/", "b">>

\* C20: the dispatcher answers not-found exactly when routing produced
\* neither a Handler nor a StreamHandler, and then the response carries no
\* header and no cookie of the route result.
C20_NotFoundIffNoHandler ==
    (respStatus # "none" /\ ~rres.Error)
    => /\ (respStatus = "NotFound") = NoHandler
       /\ respStatus = "NotFound" =>
             (respHeaders = EmptyHeader /\ respCookies = {})

(***************************************************************************)
(* Package secret: Authenticate and UnwrapAuthentication.  Byte slices are *)
(* sequences of small numbers.  HMAC-SHA256 is taken as ideal: the digest  *)
(* stands for the pair of the key HMAC derives from the secret and the     *)
(* bytes written to the MAC, and each of the sigLength bytes of its        *)
(* encoding stands for its place in the encoding of that digest.           *)
(***************************************************************************)
SecretBytes == 0..MaxSecretByte
SliceBytes == 0..MaxSliceByte

\* []byte values of a bounded length
BytesUpTo(bytes, n) == UNION {[1..k -> bytes] : k \in 0..n}

Secrets == BytesUpTo(SecretBytes, MaxSecretLen)
Slices == BytesUpTo(SliceBytes, MaxSliceLen)

\* The arguments of one Authenticate call: at least one slice, the last of
\* which is the value to sign
SliceTuples == UNION {[1..k -> Slices] : k \in 1..MaxSlices}

\* b[lo:hi]
Slice(b, lo, hi) == SubSeq(b, lo + 1, hi)

\* []byte("__!sauthed!_")
SignSuffix == <<95, 95, 33, 115, 97, 117, 116, 104, 101, 100, 33, 95>>

\* SignatureEncoding.EncodedLen(32), unpadded base64 of the 32 bytes of a
\* SHA-256 digest
sigLength == 43

\* A faulty variant of fullLength: the suffix is not counted
lengthWithoutSuffix == sigLength

fullLength == sigLength + Len(SignSuffix)

\* A faulty variant of EscapedWrite: zero bytes are written once
UnescapedWrite(b) == b

\* The loop of EscapedWrite with its two indices; gives the bytes written
RECURSIVE EscapedWriteFrom(_, _, _)
EscapedWriteFrom(b, start, end) ==
    IF end < Len(b)
    THEN IF b[end + 1] = 0
         THEN Slice(b, start, end + 1) \o EscapedWriteFrom(b, end, end + 1)
         ELSE EscapedWriteFrom(b, start, end + 1)
    ELSE Slice(b, start, end)

\* EscapedWrite(w, b): the bytes it writes to w, every zero byte twice
EscapedWrite(b) ==
    IF Len(b) = 0 THEN <<>> ELSE EscapedWriteFrom(b, 0, 0)

\* What authenticate writes to the MAC for the slices from the i-th on
RECURSIVE macWrites(_, _)
macWrites(b, i) ==
    IF i > Len(b) THEN <<>>
    ELSE EscapedWrite(b[i]) \o <<0, 1>> \o macWrites(b, i + 1)

\* The key hmac.New works with: HMAC pads a key shorter than the hash's
\* block with zero bytes, so trailing zero bytes of the secret do not count
RECURSIVE hmacKey(_)
hmacKey(k) ==
    IF Len(k) > 0 /\ k[Len(k)] = 0 THEN hmacKey(Slice(k, 0, Len(k) - 1))
    ELSE k

\* mac.Sum(nil) after the writes
hmacSum(k, written) == [key |-> hmacKey(k), written |-> written]

\* SignatureEncoding.Encode(sig, signature)
Encode(signature) ==
    [i \in 1..sigLength |-> [digest |-> signature, at |-> i]]

\* Secret.authenticate: just the encoded signature
authenticate(k, b) == Encode(hmacSum(k, macWrites(b, 1)))

\* Secret.Authenticate
Authenticate(k, b) ==
    IF Len(k) = 0
    THEN [value |-> <<>>, err |-> "ErrNoSecretKey"]
    ELSE [value |-> b[Len(b)] \o SignSuffix \o authenticate(k, b),
          err |-> "nil"]

\* Secret.UnwrapAuthentication
UnwrapAuthentication(k, b) ==
    LET last == b[Len(b)]
        original ==
            Slice(b, 0, Len(b) - 1)
                \o <<Slice(last, 0, Len(last) - fullLength)>>
    IN IF Len(k) = 0
       THEN [value |-> <<>>, err |-> "ErrNoSecretKey"]
       ELSE IF Len(last) < fullLength
       THEN [value |-> <<>>, err |-> "ErrNotAuthenticated"]
       ELSE IF authenticate(k, original)
                   = Slice(last, Len(last) - sigLength, Len(last))
       THEN [value |-> Slice(last, 0, Len(last) - fullLength), err |-> "nil"]
       ELSE [value |-> <<>>, err |-> "ErrNotAuthenticated"]

\* secret.New(secret) for a secret of the bounded family, and the slices a
\* caller is going to authenticate with it
SecretInit ==
    /\ secret \in Secrets
    /\ slices \in SliceTuples
    /\ authed = NoResult
    /\ unwrapSecret = <<>>
    /\ unwrapped = NoResult
    /\ other = << <<>> >>
    /\ otherAuthed = NoResult

\* s.Authenticate(slices...)
SecretAuthenticate ==
    /\ authed.err = "none"
    /\ authed' = Authenticate(secret, slices)
    /\ UNCHANGED <<secret, slices, unwrapSecret, unwrapped, other, otherAuthed>>
    /\ UNCHANGED <<strestVars, routerVars, sessionVars>>

\* New(k).UnwrapAuthentication of the preceding slices and the signed value,
\* as TestSecrets puts them together
SecretUnwrap(k) ==
    /\ authed.err = "nil"
    /\ unwrapped.err = "none"
    /\ otherAuthed.err = "none"
    /\ unwrapSecret' = k
    /\ unwrapped' =
          UnwrapAuthentication(k, Slice(slices, 0, Len(slices) - 1)
                                      \o <<authed.value>>)
    /\ UNCHANGED <<secret, slices, authed, other, otherAuthed>>
    /\ UNCHANGED <<strestVars, routerVars, sessionVars>>

\* s.Authenticate(b...) for a second sequence of slices
SecretAuthenticateOther(b) ==
    /\ authed.err = "nil"
    /\ unwrapped.err = "none"
    /\ otherAuthed.err = "none"
    /\ other' = b
    /\ otherAuthed' = Authenticate(secret, b)
    /\ UNCHANGED <<secret, slices, authed, unwrapSecret, unwrapped>>
    /\ UNCHANGED <<strestVars, routerVars, sessionVars>>

SecretNext ==
    \/ SecretAuthenticate
    \/ \E k \in Secrets : SecretUnwrap(k)
    \/ \E b \in SliceTuples : SecretAuthenticateOther(b)

\* A Secret about to be used; no Stream is served and no request routed.
SecretRequestInit == StrestInit /\ RouterParked /\ SecretInit /\ SessionInit

SecretSpec == SecretRequestInit /\ [][SecretNext]_vars

(***************************************************************************)
(* Package session: the RAMSessionServer.  A step is what a goroutine does *)
(* between two points where another goroutine can come in: a section under *)
(* rss.Lock(), or one read or write made without the lock.                 *)
(***************************************************************************)
\* var expired = time.Unix(279835200, 0), a time before every Now()
expired == -1

\* now.After(expiration)
After(t, expiration) == t > expiration

\* abtime: the clock advances
Tick ==
    /\ now < MaxTime
    /\ now' = now + 1
    /\ UNCHANGED <<sessions, nextSessionID, ExpirationTime, streams,
                   nextStreamID, streamClosed, gpc, gsk, gsession, gnow, gres,
                   expireDone, gexpired>>
    /\ UNCHANGED <<strestVars, routerVars, secretVars>>

\* RAMSessionServer.NewSession
NewSession ==
    /\ nextSessionID \in SessionIDs
    /\ ExpirationTime' =
          [ExpirationTime EXCEPT ![nextSessionID] = now + Timeout]
    /\ sessions' = sessions \cup {nextSessionID}
    /\ nextSessionID' = nextSessionID + 1
    /\ UNCHANGED <<now, streams, nextStreamID, streamClosed, gpc, gsk,
                   gsession, gnow, gres, expireDone, gexpired>>
    /\ UNCHANGED <<strestVars, routerVars, secretVars>>

\* RAMSession.Expire, by whoever holds the session
Expire(s) ==
    /\ s < nextSessionID
    /\ ExpirationTime' = [ExpirationTime EXCEPT ![s] = expired]
    /\ expireDone' = expireDone \cup {s}
    /\ UNCHANGED <<now, sessions, nextSessionID, streams, nextStreamID,
                   streamClosed, gpc, gsk, gsession, gnow, gres, gexpired>>
    /\ UNCHANGED <<strestVars, routerVars, secretVars>>

\* GetSession(sk) up to its test of session: the lookup under the lock, and
\* the return for a nil session
GetSessionLookup(g, sk) ==
    /\ gpc[g] = "idle"
    /\ gsk' = [gsk EXCEPT ![g] = sk]
    /\ gexpired' = [gexpired EXCEPT ![g] =
          sk < nextSessionID
          /\ (sk \in expireDone \/ After(now, ExpirationTime[sk]))]
    /\ IF sk \in sessions
       THEN /\ gsession' = [gsession EXCEPT ![g] = sk]
            /\ gpc' = [gpc EXCEPT ![g] = "now"]
            /\ gres' = [gres EXCEPT ![g] = SessionResult(NoSession, "none")]
       ELSE /\ gsession' = [gsession EXCEPT ![g] = NoSession]
            /\ gpc' = [gpc EXCEPT ![g] = "idle"]
            /\ gres' = [gres EXCEPT ![g] =
                  SessionResult(NoSession, "ErrSessionNotFound")]
    /\ UNCHANGED <<now, sessions, nextSessionID, ExpirationTime, streams,
                   nextStreamID, streamClosed, gnow, expireDone>>
    /\ UNCHANGED <<strestVars, routerVars, secretVars>>

\* GetSession: now := rss.Now()
GetSessionNow(g) ==
    /\ gpc[g] = "now"
    /\ gnow' = [gnow EXCEPT ![g] = <<now, now>>]
    /\ gpc' = [gpc EXCEPT ![g] = "Expired"]
    /\ UNCHANGED <<now, sessions, nextSessionID, ExpirationTime, streams,
                   nextStreamID, streamClosed, gsk, gsession, gres,
                   expireDone, gexpired>>
    /\ UNCHANGED <<strestVars, routerVars, secretVars>>

\* RAMSession.Expired: now := rs.rss.Now()
ExpiredNow(g) ==
    /\ gpc[g] = "Expired"
    /\ gnow' = [gnow EXCEPT ![g] = <<gnow[g][1], now>>]
    /\ gpc' = [gpc EXCEPT ![g] = "expiration"]
    /\ UNCHANGED <<now, sessions, nextSessionID, ExpirationTime, streams,
                   nextStreamID, streamClosed, gsk, gsession, gres,
                   expireDone, gexpired>>
    /\ UNCHANGED <<strestVars, routerVars, secretVars>>

\* RAMSession.Expired: the read of ExpirationTime under the lock, the
\* comparison, and GetSession's branch on it
ExpiredRead(g) ==
    /\ gpc[g] = "expiration"
    /\ gpc' = [gpc EXCEPT ![g] =
          IF After(gnow[g][2], ExpirationTime[gsession[g]])
          THEN "delete" ELSE "renew"]
    /\ UNCHANGED <<now, sessions, nextSessionID, ExpirationTime, streams,
                   nextStreamID, streamClosed, gsk, gsession, gnow, gres,
                   expireDone, gexpired>>
    /\ UNCHANGED <<strestVars, routerVars, secretVars>>

\* GetSession: delete(rss.sessions, sk); return nil, ErrSessionNotFound
GetSessionDelete(g) ==
    /\ gpc[g] = "delete"
    /\ sessions' = sessions \ {gsk[g]}
    /\ gres' = [gres EXCEPT ![g] =
          SessionResult(NoSession, "ErrSessionNotFound")]
    /\ gpc' = [gpc EXCEPT ![g] = "idle"]
    /\ gnow' = [gnow EXCEPT ![g] = <<0, 0>>]
    /\ UNCHANGED <<now, nextSessionID, ExpirationTime, streams, nextStreamID,
                   streamClosed, gsk, gsession, expireDone, gexpired>>
    /\ UNCHANGED <<strestVars, routerVars, secretVars>>

\* The new expiry GetSession writes
Renewed(t) == t + Timeout

\* GetSession: session.ExpirationTime = now.Add(rss.Timeout), written without
\* the lock; return session, nil
GetSessionRenew(g) ==
    /\ gpc[g] = "renew"
    /\ ExpirationTime' =
          [ExpirationTime EXCEPT ![gsession[g]] = Renewed(gnow[g][1])]
    /\ gres' = [gres EXCEPT ![g] = SessionResult(gsession[g], "nil")]
    /\ gexpired' = [gexpired EXCEPT ![g] = @ \/ gsession[g] \in expireDone]
    /\ gpc' = [gpc EXCEPT ![g] = "idle"]
    /\ gnow' = [gnow EXCEPT ![g] = <<0, 0>>]
    /\ UNCHANGED <<now, sessions, nextSessionID, streams, nextStreamID,
                   streamClosed, gsk, gsession, expireDone>>
    /\ UNCHANGED <<strestVars, routerVars, secretVars>>

\* RAMSession.NewStream: strest.NewStream(id) and its entry in rs.streams
NewStream(s) ==
    /\ s < nextSessionID
    /\ nextStreamID \in StreamIDs
    /\ streams' = [streams EXCEPT ![s] = @ \cup {nextStreamID}]
    /\ nextStreamID' = nextStreamID + 1
    /\ UNCHANGED <<now, sessions, nextSessionID, ExpirationTime, streamClosed,
                   gpc, gsk, gsession, gnow, gres, expireDone, gexpired>>
    /\ UNCHANGED <<strestVars, routerVars, secretVars>>

\* Stream.Close, called by whoever holds the Stream
SessionStreamClose(st) ==
    /\ st < nextStreamID
    /\ ~streamClosed[st]
    /\ streamClosed' = [streamClosed EXCEPT ![st] = TRUE]
    /\ UNCHANGED <<now, sessions, nextSessionID, ExpirationTime, streams,
                   nextStreamID, gpc, gsk, gsession, gnow, gres, expireDone,
                   gexpired>>
    /\ UNCHANGED <<strestVars, routerVars, secretVars>>

\* RAMSession.GetStream for a StreamID signed with the session's secret, or
\* for one that is not: the Stream found, or none
GetStream(s, sid, signed) ==
    IF ~signed THEN "ErrStreamNotFound"
    ELSE IF sid \notin streams[s] THEN "ErrStreamNotFound"
    ELSE "nil"

SessionNext ==
    \/ Tick
    \/ NewSession
    \/ \E s \in SessionIDs : Expire(s)
    \/ \E g \in Getters, sk \in SessionIDs : GetSessionLookup(g, sk)
    \/ \E g \in Getters : GetSessionNow(g)
    \/ \E g \in Getters : ExpiredNow(g)
    \/ \E g \in Getters : ExpiredRead(g)
    \/ \E g \in Getters : GetSessionDelete(g)
    \/ \E g \in Getters : GetSessionRenew(g)
    \/ \E s \in SessionIDs : NewStream(s)
    \/ \E st \in StreamIDs : SessionStreamClose(st)

\* A session server just made; no Stream is served, no request routed and no
\* Secret in use.
SessionServerInit == StrestInit /\ RouterParked /\ SecretParked /\ SessionInit

SessionSpec == SessionServerInit /\ [][SessionNext]_vars

(***************************************************************************)
(* C21.  The handler in its own goroutine.                                 *)
(***************************************************************************)
\* The dispatcher has left runInGoroutine, by return or by panic
DispatcherReleased == hpc # "none" /\ respStatus \in {"served", "repanicked"}

\* One side of the done channel waits for a partner that will never come
BlockedOnDone ==
    \/ respStatus = "waiting" /\ hpc = "exited"
    \/ hpc \in {"sendNil", "sendPanic"} /\ respStatus # "waiting"

\* C21: when the handler runs in a spawned goroutine the dispatcher is not
\* released before the handler has returned or panicked, a handler that
\* panicked has its panic raised again in the dispatcher, and neither
\* goroutine is left blocked on the done channel.
C21_DispatcherWaitsForHandler ==
    /\ DispatcherReleased => (hpc = "exited" /\ hend # "none")
    /\ (DispatcherReleased /\ hend \in {"panic", "panicNil"})
          => respStatus = "repanicked"
    /\ (DispatcherReleased /\ hend = "return") => respStatus = "served"
    /\ ~BlockedOnDone

(***************************************************************************)
(* C22, C23.  Authenticated byte slices.                                   *)
(***************************************************************************)
\* The signature at the end of an authenticated value
SignatureOf(v) == Slice(v, Len(v) - sigLength, Len(v))

C23_DifferentSlicesDifferentSignature ==
    (otherAuthed.err = "nil" /\ other # slices)
    => /\ macWrites(other, 1) # macWrites(slices, 1)
       /\ SignatureOf(otherAuthed.value) # SignatureOf(authed.value)

\* The delimiter bytes 0, 1 moved from the end of the key to the start of the
\* value
C23_Witness ==
    /\ otherAuthed.err = "nil"
    /\ Len(slices) = 2 /\ Len(other) = 2
    /\ slices[1] = other[1] \o <<0, 1>>
    /\ other[2] = <<0, 1>> \o slices[2]

(***************************************************************************)
(* C24, C25.  Sessions that expire.                                        *)
(***************************************************************************)
\* The GetSession call of g has returned
GetSessionReturned(g) == gpc[g] = "idle" /\ gres[g].err # "none"

\* The session has expired: by Expire, or by its time running out
SessionExpired(s) ==
    s < nextSessionID /\ (s \in expireDone \/ After(now, ExpirationTime[s]))

\* C24: GetSession never returns a session that had already expired, by its
\* timeout when the call began or by an Expire that returned before the call
\* did; for such a session and for an unknown ID it returns
\* ErrSessionNotFound.
C24_GetSessionNeverReturnsExpired ==
    \A g \in Getters :
        GetSessionReturned(g)
        => /\ gres[g].session # NoSession => ~gexpired[g]
           /\ (gexpired[g] \/ gsession[g] = NoSession)
                 => gres[g] = SessionResult(NoSession, "ErrSessionNotFound")

\* C25: once a session has expired every Stream it owns is closed and
\* GetStream no longer gives it out.
C25_ExpiryClosesStreams ==
    \A s \in SessionIDs :
        SessionExpired(s)
        => \A st \in StreamIDs :
               st \in streams[s]
               => streamClosed[st] /\ GetStream(s, st, TRUE) # "nil"

(***************************************************************************)
(* C26 .. C30.  The loop of RouteBlock.Route.                              *)
(***************************************************************************)
\* The frame as rr.advance() made it for the running Route call: the path
\* the frame above has left, nothing consumed or written, isFinal inherited
FrameOnEntry ==
    [ZeroFrame EXCEPT !.path = remainingPath(frames[current - 1]),
                      !.isFinal = frames[current - 1].isFinal]

\* The running Route call is between two clauses, the last one having
\* yielded no handler and no error
ClauseHasFailed == rpc = "loop" /\ Top.n > 0

\* C26: after a clause, or the sub-block it handed on to, has yielded neither
\* a handler nor an error, the current frame is as it was before the clause
\* ran: the path the block saw on entry, nothing consumed, no headers, cookies
\* or holes, the inherited isFinal; at every depth of nesting.
C26_FailedClauseRestoresFrame ==
    ClauseHasFailed => frames[current] = FrameOnEntry

\* C27: at every point of routing, the path of each frame above frame 0, up
\* to the current one, is the remaining path of the frame below it.
C27_FramePathIsParentsRemainingPath ==
    \A i \in 0..(current - 1) :
        frames[i + 1].path = remainingPath(frames[i])

\* The handler a Result carries, of either kind
HandlerOf(res) ==
    IF res.Handler # "nil" THEN res.Handler ELSE res.StreamHandler

\* The handler of the first clause, in the order the clauses were added, that
\* yields one for the path, itself or through its sub-block; "nil" if none.
RECURSIVE FirstYield(_, _, _)
ClauseYield(c, path) ==
    CASE c.kind = "StaticLocation" ->
            IF HasPrefix(path, c.loc)
            THEN FirstYield(c.block, 1, SubSeq(path, Len(c.loc) + 1, Len(path)))
            ELSE "nil"
      [] c.kind = "ReturnClause" -> IF path = <<>> THEN c.h ELSE "nil"
      [] c.kind = "ForwardClause" -> c.h
      [] c.kind = "StreamClause" -> c.h
      [] OTHER -> FirstYield(c.block, 1, path)

FirstYield(b, i, path) ==
    IF i > Len(table[b]) THEN "nil"
    ELSE IF ClauseYield(table[b][i], path) # "nil"
         THEN ClauseYield(table[b][i], path)
         ELSE FirstYield(b, i + 1, path)

\* C28: Route takes its clauses in the order they were added and returns the
\* handler of the first that yields one, directly or through its sub-block;
\* once a handler has been returned nothing more of routing happens.
C28_FirstYieldingClauseWins ==
    /\ [](Routed => HandlerOf(rres) = FirstYield(1, 1, basePath))
    /\ [][HandlerOf(rres) # "nil"
             => UNCHANGED <<frames, current, rstack, rres, nextTag>>]_vars

\* Both of two sibling routes match the path, and the first added has won
C28_Witness ==
    /\ Routed
    /\ TwoSiblings(TableTwoForwards(FirstLiteral, SecondLiteral))
    /\ HasPrefix(basePath, FirstLiteral)
    /\ HasPrefix(basePath, SecondLiteral)
    /\ rres.Handler = "SF1"

\* C29: when a clause or its sub-block has reported an error, Route returns
\* the error at once: it does not go on into the clause's sub-block, and the
\* Result that comes back carries no handler.
C29_ErrorEndsRouting ==
    /\ \A d \in 1..Len(rstack) : ~rstack[d].res.Error
    /\ (rpc \in {"ret", "done"} /\ rres.Error) => HandlerOf(rres) = "nil"

\* A Route call has returned emptyResult
ReturnedEmpty == rpc = "ret" /\ rres = emptyResult

\* C30: when every clause of a block has failed without an error, Route pops
\* the frame it pushed: current is again what it was on entry, which is the
\* number of Route calls still running, it is never below zero, and the
\* Result returned has no handler, no RouteBlock and no error.
C30_ExhaustedBlockPopsItsFrame ==
    /\ [](current >= 0)
    /\ [](rpc = "loop" => current = Len(rstack))
    /\ [](ReturnedEmpty => current = Len(rstack))
    /\ [][(rpc = "loop" /\ rpc' = "ret" /\ HandlerOf(rres') = "nil"
              /\ ~rres'.Error)
             => /\ current' = current - 1
                /\ rres' = emptyResult
                /\ rstack' = CallersOfTop]_vars

\* A nested block ran out of clauses and its caller's frame is current again
C30_Witness ==
    /\ ReturnedEmpty
    /\ Len(rstack) = 1
    /\ current = 1
    /\ Top.res.RouteBlock # "nil"

(***************************************************************************)
(* C31 .. C33.  What routeResult and PathConsumed make of the frames.      *)
(***************************************************************************)
\* The holes the clauses of the winning path opened, in the order they
\* called AddSecurityHole
WinningPathHoles ==
    IF table = TableWriting("hole", "none")
    THEN <<"AllowBrowserTypeGuessing">>
    ELSE <<>>

\* C31: when a request has been routed to a handler, RouteResult.Holes holds
\* the security holes the clauses of the winning path added through
\* AddSecurityHole, in the order added, and no others.
C31_WinningHolesReachRouteResult ==
    (Routed /\ ~NoHandler) => routeResult.Holes = WinningPathHoles

\* The calls of AddHeader and SetHeader a writing clause makes, in the order
\* it makes them, the first writing value v
ClauseWrites(c, v) ==
    CASE c.kind # "Application" \/ c.write = "hole" -> <<>>
      [] c.write = "setadd" ->
            <<[op |-> "set", key |-> c.key, value |-> v],
              [op |-> "add", key |-> c.key, value |-> v + 1]>>
      [] c.write = "addset" ->
            <<[op |-> "add", key |-> c.key, value |-> v],
              [op |-> "set", key |-> c.key, value |-> v + 1]>>
      [] OTHER -> <<[op |-> c.write, key |-> c.key, value |-> v]>>

\* The header writes of the winning path of a table of the family, in the
\* order made: those of the root clause, then those of the clause below it
WinningPathWrites ==
    LET first == ClauseWrites(table[1][1], 1)
    IN IF table[1][1].kind = "Application"
       THEN first \o ClauseWrites(table[2][1], Len(first) + 1)
       ELSE <<>>

\* The header map after replaying the first n writes of ws on an empty one:
\* an AddHeader appends, a SetHeader replaces
RECURSIVE Replay(_, _)
Replay(ws, n) ==
    IF n = 0
    THEN EmptyHeader
    ELSE IF ws[n].op = "add"
         THEN HeaderAdd(Replay(ws, n - 1), ws[n].key, ws[n].value)
         ELSE HeaderSet(Replay(ws, n - 1), ws[n].key, ws[n].value)

ReplayedHeaders == Replay(WinningPathWrites, Len(WinningPathWrites))

\* C32: when a request has been routed to a handler, the headers of the
\* RouteResult are those that replaying the AddHeader and SetHeader calls of
\* the winning path gives, in the order they were made, an AddHeader
\* appending and a SetHeader replacing; and they are the values the
\* dispatcher has put into the response when it runs the handler.
C32_MergedHeadersAreReplay ==
    /\ (Routed /\ ~NoHandler) => routeResult.Headers = ReplayedHeaders
    /\ respStatus = "serving"
       => \A k \in HeaderKeys :
              respHeaders[k] = [i \in 1..Len(ReplayedHeaders[k]) |->
                                   ToString(ReplayedHeaders[k][i])]

\* consumed, the local of PathConsumed after its loop over frames 0..k
RECURSIVE consumed(_)
consumed(k) ==
    IF k = 0
    THEN frames[0].consume
    ELSE consumed(k - 1) + frames[k].consume

\* Request.PathConsumed: rr.basePath[0:consumed].  Past the end of basePath
\* the slice expression gives whatever bytes the backing array holds, or
\* panics past its capacity; "?" stands for either.
PathConsumed ==
    IF consumed(current) <= Len(basePath)
    THEN SubSeq(basePath, 1, consumed(current))
    ELSE basePath \o [i \in 1..(consumed(current) - Len(basePath)) |-> "?"]

\* C33: at every point of routing the consumption of frames 0..current adds
\* up to no more than the length of basePath, PathConsumed() followed by the
\* remaining path of the current frame is basePath, and PathConsumed() is
\* the PrecedingPath routeResult computes.
C33_PathConsumedIsPrecedingPath ==
    /\ consumed(current) <= Len(basePath)
    /\ PathConsumed \o remainingPath(frames[current]) = basePath
    /\ PathConsumed = routeResult.PrecedingPath

(***************************************************************************)
(* C34 .. C40.  The Stream's registry, its commands and the transport.     *)
(***************************************************************************)
\* The substream IDs the Stream has handed out so far
HandedOut == FirstSubstreamID..(nextSubstreamID - 1)

\* The owner's close of the substream it holds has returned.
OwnerCloseReturned(c) ==
    /\ cheld[c] # 0
    /\ closeCalls[cheld[c]] > 0
    /\ cpc[c] = "idle"

\* The Stream takes the close message of a substream that is no longer in
\* the registry.
StaleSelfClose(c) ==
    /\ serveFromSubstream(c)
    /\ cpc[c] = "ss_close"
    /\ cheld[c] \notin streamMembers

\* C34: close() is never called a second time on a substream's receive
\* channel, whatever the interleaving of the owner's close, a close from the
\* user and the Stream's shutdown; the channel has been closed once when the
\* owner's close has returned and, for every substream handed out, when the
\* Stream's goroutine has ended; and a close message from a substream that
\* is no longer registered changes neither the queue nor the registry.
C34_ReceiveChannelClosedOnce ==
    /\ [](\A id \in SubstreamIDs : fromUserCloses[id] <= 1)
    /\ [](\A c \in Callers :
             OwnerCloseReturned(c) => fromUserCloses[cheld[c]] = 1)
    /\ [](ServeGone => \A id \in HandedOut : fromUserCloses[id] = 1)
    /\ [][\A c \in Callers :
             StaleSelfClose(c)
             => UNCHANGED <<msgs, nQueued, fromUserCloses, streamMembers>>]_vars

\* The user closed a receiving substream, its owner then called close, the
\* Stream took the close message and ignored it, and the Stream has shut
\* down since without closing the channel again.
C34_Witness ==
    /\ ServeGone
    /\ \E c \in Callers :
           /\ OwnerCloseReturned(c)
           /\ cres[c] = "nil"
           /\ canReceive[cheld[c]]
           /\ fromUserCloses[cheld[c]] = 1
    /\ nQueued = 0

\* Goroutine c is inside Stream.Close, before or in the send on s.commands.
InStreamClose(c) ==
    /\ cpc[c] \in {"cmd_checked", "cmd_send"}
    /\ ccmd[c] = "stop"

\* C35: every call of Stream.Close returns, under every interleaving, also
\* when the Stream ends for another reason meanwhile: a Close is never still
\* before or in its send on s.commands once the serving goroutine has run
\* its cleanup and exited, for nothing receives on s.commands after that.
C35_StreamCloseAlwaysReturns ==
    \A c \in Procs : InStreamClose(c) => ~ServeGone

\* The Stream is Running: its goroutine is in serve's loop.
Running == spc \in {"select", "reply", "deliver"}

\* Goroutine c is blocked in s.commands <- sc.
CommandWaiting(c) == cpc[c] = "cmd_send"

\* C36: while the Stream is Running a command that waits on s.commands is
\* always going to be serviced: the serving goroutine can take a step of its
\* own towards the select that receives the command, whatever it is doing,
\* the delivery of a transport message to a receiving substream included.
C36_CommandsAlwaysServiced ==
    \A c \in Procs :
        (CommandWaiting(c) /\ Running) => ENABLED ServeNext

\* C37: an event from the transport with Close set, addressed to a substream
\* in the registry, whatever its kind, makes the Stream close the substream's
\* receive channel and take it out of the registry in that very step of its
\* loop: the Stream has no way of handling such an event that leaves the
\* substream registered or its channel open, or that leaves the loop.
C37_CloseFromUserClosesSubstream ==
    \A dest \in SubstreamIDs :
        ~ENABLED (/\ dest \in streamMembers
                  /\ serveFromUser(dest, TRUE)
                  /\ \/ dest \in streamMembers'
                     \/ fromUserCloses'[dest] # fromUserCloses[dest] + 1
                     \/ spc' # "select")

\* C38: an event from the transport addressed to an ID that is not in the
\* registry makes the Stream append one close notification for that ID to
\* its queue, and nothing else: no delivery begins, no channel is closed, no
\* call of a substream's owner is touched.
C38_UnknownDestinationQueuesOneClose ==
    [][\A dest \in SubstreamIDs, cl \in BOOLEAN :
          (dest \notin streamMembers /\ serveFromUser(dest, cl))
          => /\ msgs' = Append(msgs, [source |-> dest, close |-> TRUE,
                                      seq |-> nQueued + 1])
             /\ UNCHANGED <<spc, sarg, streamMembers, fromUserCloses,
                            callerVars>>]_vars

\* The user closed substream 1 and then sent it another event: the close
\* notification for 1 is queued, the owner never having closed it.
C38_Witness ==
    /\ spc = "select"
    /\ nextSubstreamID > 1
    /\ 1 \notin streamMembers
    /\ closeCalls[1] = 0
    /\ msgs = <<[source |-> 1, close |-> TRUE, seq |-> 1]>>

\* C39: SetExternalStream and DisconnectExternalStream called on a Stream
\* that has closed return: once the Stream is closed and its goroutine has
\* ended, neither call can be left in its send on s.commands, which nothing
\* receives from any more.
C39_ExternalStreamCallsReturnWhenClosed ==
    (closed /\ ServeGone)
    => ~ENABLED (\E cmd \in {"set", "unset"} :
                    /\ ExternalStreamCall(Driver, cmd)
                    /\ CommandWaiting(Driver)')

====
